---- MODULE Spec2Model ----
(***************************************************************************)
(* A model of the LSM key-value store lsmkv: the store facade              *)
(* (core/kvstore.py), the memtable manager (core/memtable_manager.py), the *)
(* SSTable manager with leveled background compaction                      *)
(* (core/sstable_manager.py), the WAL (storage/wal.py), the memtable       *)
(* (storage/memtable.py) and the per-level manifests                       *)
(* (storage/level_manifest.py).                                            *)
(*                                                                         *)
(* Every critical section of the code (a `with lock:` block, or one file   *)
(* operation) is one atomic step; the steps of different threads           *)
(* interleave freely.  Threads: one writer, one caller of flush(), one     *)
(* caller of compact(), one caller of close(), one reader, the flush       *)
(* worker pool and the single compaction worker.                           *)
(*                                                                         *)
(* Spec runs every thread; SpecCore, SpecAuto, SpecRead and SpecLife run   *)
(* the writer and the workers beside one group of callers each.  The 30 s  *)
(* timeout of wait_for_compaction is not modelled: a caller that waits     *)
(* proceeds once no compaction is in progress.                             *)
(***************************************************************************)
EXTENDS Integers, Sequences, FiniteSets, TLC

(***************************************************************************)
(* Bounds of the model and configuration of the store under test.          *)
(***************************************************************************)
Keys == {"a", "b"}
Values == {"v1", "v2"}

\* Number of put/delete calls explored, and the larger number explored when
\* only the background workers and compact() run beside the writer.
MaxOps == 3
MaxOpsAuto == 4
\* put / delete calls when flush() and close() run alongside.
MaxOpsStop == 2
\* Number of manual flush() calls explored.
MaxFlushCalls == 1
\* Number of manual compact() calls explored.
MaxCompactCalls == 1
\* Number of process starts after the first (crash or clean close, then reopen).
MaxRestarts == 1
\* Number of get() calls followed step by step.
MaxReads == 1
\* Largest reading of the wall clock (microseconds) handed to _get_timestamp.
MaxClock == 1
\* Number of run writes (SSTable.write) that fail with an I/O error.
MaxWriteFaults == 1

\* LSMKVStore(memtable_size=...), max_immutable_memtables, flush_workers.
MemtableSize == 2
MaxImmutable == 1
FlushWorkers == 2
\* LSMKVStore(level_ratio, base_level_entries, max_l0_sstables).
LevelRatio == 3
BaseLevelEntries == 1
MaxL0SSTables == 2

\* soft_limit_ratio = 0.85, as a percentage.
SoftLimitPct == 85
\* max_memory_mb = 10 and base_level_size_mb = 1.0, in bytes.
MaxMemoryBytes == 10485760
BaseLevelSizeBytes == 1048576
\* ImmutableMemtable._estimate_size: 100 bytes per entry.
EntryEstimateBytes == 100
\* Size on disk attributed to one entry of a run (a JSON line of data.db).
EntryDiskBytes == 64

VARIABLES
    closed,          \* LSMKVStore._closed
    lastTs,          \* LSMKVStore._last_timestamp
    wal,             \* the records of wal.log, in file order
    active,          \* MemtableManager.active (its key_map)
    immQ,            \* MemtableManager.immutable_queue, oldest first
    seqNo,           \* MemtableManager.sequence_number
    flushTasks,      \* work submitted to MemtableManager.flush_executor, in order
    flushDown,       \* flush_executor has been shut down
    levels,          \* SSTableManager.levels: level -> run-IDs, oldest first
    manifest,        \* manifests/level_<L>.json: level -> entries, in file order
    disk,            \* sstables/: run-ID -> the entries of its data.db
    nextId,          \* manifests/global.json: next_sstable_id
    compacting,      \* SSTableManager._compacting_sstable_ids
    compTasks,       \* work submitted to SSTableManager.compaction_executor
    compDown,        \* compaction_executor has been shut down
    reloadDown,      \* _manifest_reload_executor has been shut down
    wr,              \* the writer thread: a put/delete call in progress
    fl,              \* the thread calling flush()
    cp,              \* the thread calling compact()
    cl,              \* the thread calling close()
    rd,              \* the reader thread: a get call in progress
    last,            \* history: key -> entry of the last acknowledged write
    hist             \* history: counters that bound the run, the reads just
                     \* before close(), key -> highest timestamp ever published,
                     \* the calls begun after close() returned

vars == << closed, lastTs, wal, active, immQ, seqNo, flushTasks, flushDown,
           levels, manifest, disk, nextId, compacting, compTasks, compDown, reloadDown,
           wr, fl, cp, cl, rd, last, hist >>

(***************************************************************************)
(* Entries (core/dto.py).  NoEntry stands for Python's None.               *)
(***************************************************************************)
NoValue == "null"
NoEntry == [ts |-> 0, val |-> NoValue, del |-> FALSE]
Entry(v, t, d) == [ts |-> t, val |-> v, del |-> d]

\* GetResult: the value, or NotFound for found=False.
NotFound == "absent"
GetResult(e) == IF e = NoEntry \/ e.del THEN NotFound ELSE e.val

RECURSIVE SeqSum(_)
SeqSum(s) == IF s = << >> THEN 0 ELSE Head(s) + SeqSum(Tail(s))

Reverse(s) == [i \in 1..Len(s) |-> s[Len(s) + 1 - i]]
Range(s) == {s[i] : i \in 1..Len(s)}
SelectIds(s, ids) == SelectSeq(s, LAMBDA x : x \notin ids)

RECURSIVE Pow(_, _)
Pow(b, n) == IF n = 0 THEN 1 ELSE b * Pow(b, n - 1)

(***************************************************************************)
(* Memtable (storage/memtable.py): key_map as a function on Keys.          *)
(***************************************************************************)
EmptyMemtable == [k \in Keys |-> NoEntry]
MemLen(m) == Cardinality({k \in Keys : m[k] # NoEntry})
MemPut(m, k, e) == [m EXCEPT ![k] = e]
MemIsFull(m) == MemLen(m) >= MemtableSize

\* Memtable.get(key) with include_tombstones left at its default False: a
\* tombstone is reported as None, like a missing key.
MemGet(m, k) == IF m[k] # NoEntry /\ ~m[k].del THEN m[k] ELSE NoEntry

(***************************************************************************)
(* MemtableManager (core/memtable_manager.py).  Its state is the record    *)
(* [active, immQ, seqNo, tasks]; `down` says the flush executor was shut   *)
(* down, and `raised` that the call ended with an exception.               *)
(***************************************************************************)
MMState(a, q, n, t) == [active |-> a, immQ |-> q, seqNo |-> n, tasks |-> t, raised |-> FALSE]

\* collections.deque(maxlen=max_immutable).append: a full deque drops its
\* leftmost element.
DequeAppend(q, x) ==
    IF Len(q) >= MaxImmutable THEN Append(Tail(q), x) ELSE Append(q, x)

FlushTask(imm) == [mem |-> imm.mem, seq |-> imm.seq, pc |-> "queued"]

\* MemtableManager._check_and_flush, called with the lock held.
CheckAndFlush(mm, down) ==
    LET total_memory == SeqSum([i \in 1..Len(mm.immQ) |->
                                   MemLen(mm.immQ[i].mem) * EntryEstimateBytes])
        should_flush == \/ Len(mm.immQ) >= MaxImmutable
                        \/ total_memory >= MaxMemoryBytes
    IN  IF ~should_flush THEN mm
        ELSE IF down
             THEN [mm EXCEPT !.immQ = Tail(mm.immQ), !.raised = TRUE]
             ELSE [mm EXCEPT !.immQ = Tail(mm.immQ),
                             !.tasks = Append(mm.tasks, FlushTask(Head(mm.immQ)))]

\* MemtableManager._rotate_memtable.
RotateMemtable(mm, down) ==
    LET immutable == [mem |-> mm.active, seq |-> mm.seqNo]
    IN  CheckAndFlush([mm EXCEPT !.immQ = DequeAppend(mm.immQ, immutable),
                                 !.seqNo = mm.seqNo + 1,
                                 !.active = EmptyMemtable], down)

\* A put that never rotates the active memtable.
MMPutWithoutRotation(mm, k, e, down) == [mm EXCEPT !.active = MemPut(mm.active, k, e)]
\* MemtableManager.put and MemtableManager.delete (the same code; a delete
\* passes a tombstone entry).
MMPut(mm, k, e, down) ==
    LET mm1 == [mm EXCEPT !.active = MemPut(mm.active, k, e)]
    IN  IF MemIsFull(mm1.active) THEN RotateMemtable(mm1, down) ELSE mm1

\* MemtableManager.get: active first, then the immutable queue newest first.
RECURSIVE FirstFound(_, _)
FirstFound(mems, k) ==
    IF mems = << >> THEN NoEntry
    ELSE IF MemGet(Head(mems), k) # NoEntry THEN MemGet(Head(mems), k)
    ELSE FirstFound(Tail(mems), k)

MMGet(a, q, k) ==
    FirstFound(<< a >> \o Reverse([i \in 1..Len(q) |-> q[i].mem]), k)

(***************************************************************************)
(* SSTableManager (core/sstable_manager.py).  Its state is the record      *)
(* [levels, manifest, disk, nextId, compacting, tasks].                    *)
(***************************************************************************)
SSTState(lv, mf, dk, nid, cg, t) ==
    [levels |-> lv, manifest |-> mf, disk |-> dk, nextId |-> nid,
     compacting |-> cg, tasks |-> t, raised |-> FALSE]

LevelRuns(lv, l) == IF l \in DOMAIN lv THEN lv[l] ELSE << >>
MaxOf(S) == CHOOSE x \in S : \A y \in S : y <= x

\* LazySSTable.read_all: the entries of a run, nothing when its files are gone.
ReadAll(dk, id) == IF id \in DOMAIN dk THEN dk[id] ELSE EmptyMemtable

\* LazySSTable.get / SSTable.get: the entry stored under the key, tombstones
\* included; None when the run's files are gone.
RunGet(dk, id, k) == ReadAll(dk, id)[k]

\* LevelManifest.add_sstable / remove_sstables on the manifest of one level.
ManifestAdd(mf, l, id, n) ==
    (l :> Append(LevelRuns(mf, l), [id |-> id, n |-> n])) @@ mf
\* A removal that leaves the manifest as it is.
ManifestRemoveNothing(mf, l, ids) == mf
ManifestRemove(mf, l, ids) ==
    IF l \in DOMAIN mf
    THEN [mf EXCEPT ![l] = SelectSeq(mf[l], LAMBDA x : x.id \notin ids)]
    ELSE mf

\* SSTableManager.add_sstable up to the release of the manager lock: the
\* run-ID is peeked, the run written, the manifest entry published (which
\* advances next_sstable_id past the ID) and the run listed in its level.
AddSSTable(s, entries, l) ==
    LET id == s.nextId
    IN  [s EXCEPT !.disk = (id :> entries) @@ s.disk,
                  !.nextId = IF id + 1 > s.nextId THEN id + 1 ELSE s.nextId,
                  !.manifest = ManifestAdd(s.manifest, l, id, MemLen(entries)),
                  !.levels = (l :> Append(LevelRuns(s.levels, l), id)) @@ s.levels]

\* add_sstable's last statement under the lock, _trigger_manifest_reload,
\* raises once the reload executor has been shut down: the run stays
\* published and the caller sees the exception.
AddSSTableCall(s, entries, l, rdown) == [AddSSTable(s, entries, l) EXCEPT !.raised = rdown]

\* SSTableManager._get_level_stats.
LevelTotalEntries(s, l) ==
    SeqSum([i \in 1..Len(LevelRuns(s.manifest, l)) |-> s.manifest[l][i].n])
LevelTotalBytes(s, l) ==
    SeqSum([i \in 1..Len(LevelRuns(s.levels, l)) |->
               MemLen(ReadAll(s.disk, s.levels[l][i])) * EntryDiskBytes])

\* int(x * soft_limit_ratio) for a non-negative integer x.
SoftLimit(x) == (x * SoftLimitPct) \div 100

\* SSTableManager._should_compact_level.
ShouldCompactLevel(s, l) ==
    /\ LevelRuns(s.levels, l) # << >>
    /\ \/ l = 0 /\ Len(s.levels[l]) >= SoftLimit(MaxL0SSTables)
       \/ LevelTotalEntries(s, l) >= SoftLimit(BaseLevelEntries * Pow(LevelRatio, l))
       \/ LevelTotalBytes(s, l) >= SoftLimit(BaseLevelSizeBytes * Pow(LevelRatio, l))

CompactionTask(l, srcIds, nxtIds, dk) ==
    [src |-> l, next |-> l + 1,
     sourceIds |-> Range(srcIds), nextIds |-> Range(nxtIds),
     sourceEntries |-> [i \in 1..Len(srcIds) |-> ReadAll(dk, srcIds[i])],
     nextEntries |-> [i \in 1..Len(nxtIds) |-> ReadAll(dk, nxtIds[i])],
     pc |-> "queued", newId |-> -1, bottom |-> FALSE, old |-> {}]

\* SSTableManager._submit_background_compaction with
\* _take_compaction_snapshot: snapshot the source and next level, mark their
\* run-IDs as compacting, hand the job to the compaction executor (which
\* raises once it has been shut down).
SubmitBackgroundCompaction(s, l, down) ==
    IF LevelRuns(s.levels, l) = << >> THEN s
    ELSE LET task == CompactionTask(l, s.levels[l], LevelRuns(s.levels, l + 1), s.disk)
             marked == [s EXCEPT !.compacting = @ \cup task.sourceIds \cup task.nextIds]
         IN  IF down THEN [marked EXCEPT !.raised = TRUE]
             ELSE [marked EXCEPT !.tasks = Append(@, task)]

\* SSTableManager._auto_compact: the loop over the levels, from level l on.
RECURSIVE AutoCompactFrom(_, _, _, _)
AutoCompactFrom(s, l, max_level, down) ==
    IF l > max_level \/ s.raised THEN s
    ELSE IF /\ ShouldCompactLevel(s, l)
            /\ Range(LevelRuns(s.levels, l)) \cap s.compacting = {}
         THEN AutoCompactFrom(SubmitBackgroundCompaction(s, l, down), l + 1, max_level, down)
         ELSE AutoCompactFrom(s, l + 1, max_level, down)

AutoCompact(s, down) ==
    AutoCompactFrom(s, 0, IF DOMAIN s.levels = {} THEN 0 ELSE MaxOf(DOMAIN s.levels), down)

\* The deduplication of the compactions: per key the entry with the highest
\* timestamp, the first one read among equals.
RECURSIVE NewestOf(_, _, _)
NewestOf(contents, k, best) ==
    IF contents = << >> THEN best
    ELSE LET e == Head(contents)[k]
         IN  NewestOf(Tail(contents), k,
                      IF e # NoEntry /\ (best = NoEntry \/ e.ts > best.ts) THEN e ELSE best)

KeyMap(contents) == [k \in Keys |-> NewestOf(contents, k, NoEntry)]
\* The filter that lets every entry through, tombstones too.
KeepTombstones(m) == [k \in Keys |-> m[k]]
\* compact()'s filter `if not entry.is_deleted`.
DropTombstones(m) == [k \in Keys |-> IF m[k].del THEN NoEntry ELSE m[k]]

\* is_bottommost of _background_compact: no level below next_level holds a run.
IsBottommost(lv, next_level) ==
    ~ \E l \in DOMAIN lv : l > next_level /\ lv[l] # << >>

\* SSTableManager.get: levels ascending, within a level the newest-listed
\* run first, the first entry found; `lv` is the snapshot of the level lists.
RECURSIVE FirstInRuns(_, _, _)
FirstInRuns(dk, ids, k) ==
    IF ids = << >> THEN NoEntry
    ELSE IF RunGet(dk, Head(ids), k) # NoEntry THEN RunGet(dk, Head(ids), k)
    ELSE FirstInRuns(dk, Tail(ids), k)

RECURSIVE SSTGetFrom(_, _, _, _)
SSTGetFrom(lv, dk, ls, k) ==
    IF ls = {} THEN NoEntry
    ELSE LET l == CHOOSE x \in ls : \A y \in ls : x <= y
             e == FirstInRuns(dk, Reverse(lv[l]), k)
         IN  IF e # NoEntry THEN e ELSE SSTGetFrom(lv, dk, ls \ {l}, k)

SSTGet(lv, dk, k) == SSTGetFrom(lv, dk, DOMAIN lv, k)

\* SSTableManager.get_all_entries: the contents of every run, levels
\* ascending, within a level in list order.
RECURSIVE AllContentsFrom(_, _, _)
AllContentsFrom(lv, dk, ls) ==
    IF ls = {} THEN << >>
    ELSE LET l == CHOOSE x \in ls : \A y \in ls : x <= y
         IN  [i \in 1..Len(lv[l]) |-> ReadAll(dk, lv[l][i])]
             \o AllContentsFrom(lv, dk, ls \ {l})

GetAllEntries(lv, dk) == AllContentsFrom(lv, dk, DOMAIN lv)

(***************************************************************************)
(* The store facade (core/kvstore.py).                                     *)
(***************************************************************************)
MM == MMState(active, immQ, seqNo, flushTasks)
SetMM(m) ==
    /\ active' = m.active
    /\ immQ' = m.immQ
    /\ seqNo' = m.seqNo
    /\ flushTasks' = m.tasks

SST == SSTState(levels, manifest, disk, nextId, compacting, compTasks)
SetSST(s) ==
    /\ levels' = s.levels
    /\ manifest' = s.manifest
    /\ disk' = s.disk
    /\ nextId' = s.nextId
    /\ compacting' = s.compacting
    /\ compTasks' = s.tasks

mmVars == << active, immQ, seqNo, flushTasks >>
sstVars == << levels, manifest, disk, nextId, compacting, compTasks >>

\* LSMKVStore.get, evaluated in one instant on the given state: the memtable
\* manager first, the SSTable manager only when it reports nothing.
GetOf(a, q, lv, dk, k) ==
    LET entry == MMGet(a, q, k)
    IN  IF entry # NoEntry THEN GetResult(entry) ELSE GetResult(SSTGet(lv, dk, k))

Get(k) == GetOf(active, immQ, levels, disk, k)

\* The clock reading taken as it is, without the guard against a clock
\* that stands still or goes back.
GetTimestampUnguarded(now, last_timestamp) == now
\* The clock reading held at the last returned value, not above it.
GetTimestampClamped(now, last_timestamp) ==
    IF now < last_timestamp THEN last_timestamp ELSE now
\* LSMKVStore._get_timestamp for the clock reading `now`.
GetTimestamp(now, last_timestamp) ==
    IF now <= last_timestamp THEN last_timestamp + 1 ELSE now

\* The rewrite without the timestamp test: every record of a flushed key goes.
ClearWalForFlushedKeys(w, flushed) ==
    SelectSeq(w, LAMBDA r : flushed[r.key] = NoEntry)
\* LSMKVStore._clear_wal_for_flushed_data with WAL.replace_with_filtered: keep
\* the records of keys that were not flushed and those newer than the
\* flushed entry of their key.
ClearWalForFlushedData(w, flushed) ==
    SelectSeq(w, LAMBDA r : flushed[r.key] = NoEntry \/ r.ts > flushed[r.key].ts)

\* LSMKVStore._flush_memtable_to_sstable, the flush callback, on the pair
\* [sst, wal]: publish the run at L0, trigger auto-compaction, rewrite the WAL.
FlushMemtableToSSTable(c, mem, down, rdown) ==
    IF MemLen(mem) = 0 \/ c.sst.raised THEN c
    ELSE LET added == AddSSTableCall(c.sst, mem, 0, rdown)
             s == IF added.raised THEN added ELSE AutoCompact(added, down)
         IN  IF s.raised THEN [c EXCEPT !.sst = s]
             ELSE [sst |-> s, wal |-> ClearWalForFlushedData(c.wal, mem)]

\* MemtableManager.force_flush_all: the queue oldest first, then the active
\* memtable, each through the flush callback, all under the manager lock.
RECURSIVE FlushAllOf(_, _, _, _)
FlushAllOf(c, mems, down, rdown) ==
    IF mems = << >> THEN c
    ELSE FlushAllOf(FlushMemtableToSSTable(c, Head(mems), down, rdown), Tail(mems),
                    down, rdown)

(***************************************************************************)
(* Threads.                                                                *)
(***************************************************************************)
\* `next` is the call of a second writer thread that has passed its checks
\* and waits for _write_lock.
NoCall == [op |-> "NONE", key |-> "a", val |-> NoValue]
WrIdle == [pc |-> "idle", op |-> "PUT", key |-> "a", val |-> NoValue, ts |-> 0,
           next |-> NoCall]
FlIdle == [pc |-> "idle", mem |-> EmptyMemtable, seq |-> -1]
RdIdle == [pc |-> "idle", key |-> "a", snap |-> << >>, result |-> NotFound,
           legal |-> {}]
NoPre == [k \in Keys |-> "unknown"]

\* History of the calls made after close() has returned: `late` holds the
\* names of the maintenance calls whose latest invocation began then.
CalledLate(late, name) == IF cl = "done" THEN late \cup {name} ELSE late \ {name}

\* History of compact(): the number of runs listed when the latest call
\* ran, and the number of them it has retired, zero when it raised.
Listed(lv) == Cardinality(UNION {Range(lv[l]) : l \in DOMAIN lv})
Retired(lv, after) ==
    Cardinality({id \in UNION {Range(lv[l]) : l \in DOMAIN lv} :
                    \A l \in DOMAIN after : id \notin Range(after[l])})

\* History of publication: per key the highest timestamp an entry had in a
\* run listed in the levels.
Published(pub, lv, dk) ==
    [k \in Keys |->
        LET e == NewestOf(GetAllEntries(lv, dk), k, NoEntry)
        IN  IF e.ts > pub[k] THEN e.ts ELSE pub[k]]

\* History of the reader: every result an instantaneous get of its key had
\* while the call was in progress, and every outcome of the last
\* acknowledged write on the key in that time.
Reading == rd.pc \in {"missed", "scan"}
ObserveReader ==
    rd' = IF Reading
          THEN [rd EXCEPT !.legal = @ \cup {GetOf(active', immQ', levels', disk', rd.key),
                                            GetResult(last'[rd.key])}]
          ELSE rd

Init ==
    /\ closed = FALSE
    /\ lastTs = 0
    /\ wal = << >>
    /\ active = EmptyMemtable
    /\ immQ = << >>
    /\ seqNo = 0
    /\ flushTasks = << >>
    /\ flushDown = FALSE
    /\ levels = << >>
    /\ manifest = << >>
    /\ disk = << >>
    /\ nextId = 0
    /\ compacting = {}
    /\ compTasks = << >>
    /\ compDown = FALSE
    /\ reloadDown = FALSE
    /\ wr = WrIdle
    /\ fl = FlIdle
    /\ cp = "idle"
    /\ cl = "idle"
    /\ rd = RdIdle
    /\ last = [k \in Keys |-> NoEntry]
    /\ hist = [ops |-> 0, flushes |-> 0, compacts |-> 0, restarts |-> 0,
               reads |-> 0, faults |-> 0, pre |-> NoPre,
               pub |-> [k \in Keys |-> 0], late |-> {}, listed |-> 0, retired |-> 0]

(***************************************************************************)
(* put / delete: LSMKVStore.put and LSMKVStore.delete.                     *)
(***************************************************************************)
\* Validation and the closed-store check, before the write lock is taken.
WriteCheck(op, k, v, budget) ==
    /\ wr.pc = "idle"
    /\ hist.ops < budget
    /\ ~closed
    /\ wr' = [pc |-> "checked", op |-> op, key |-> k,
              val |-> IF op = "PUT" THEN v ELSE NoValue, ts |-> 0, next |-> NoCall]
    /\ hist' = [hist EXCEPT !.ops = @ + 1]
    /\ UNCHANGED << closed, lastTs, wal, mmVars, flushDown, sstVars, compDown, reloadDown,
                    fl, cp, cl, rd, last >>

\* The same lines of put / delete run by a second thread while the first
\* one is about to take _write_lock or holds it: the call waits for the lock.
WriteCheckWaiting(op, k, v, budget) ==
    /\ wr.pc \in {"checked", "appended"}
    /\ wr.next = NoCall
    /\ hist.ops < budget
    /\ ~closed
    /\ wr' = [wr EXCEPT !.next = [op |-> op, key |-> k,
                                  val |-> IF op = "PUT" THEN v ELSE NoValue]]
    /\ hist' = [hist EXCEPT !.ops = @ + 1]
    /\ UNCHANGED << closed, lastTs, wal, mmVars, flushDown, sstVars, compDown, reloadDown,
                    fl, cp, cl, rd, last >>

Put(k, v, budget) == WriteCheck("PUT", k, v, budget)
Delete(k, budget) == WriteCheck("DELETE", k, NoValue, budget)

\* Under the write lock: the timestamp and WAL.append.
WriteAppend ==
    /\ wr.pc = "checked"
    /\ \E now \in 0..MaxClock :
        LET timestamp == GetTimestamp(now, lastTs)
        IN  /\ lastTs' = timestamp
            /\ wal' = Append(wal, [op |-> wr.op, key |-> wr.key,
                                   val |-> wr.val, ts |-> timestamp])
            /\ wr' = [wr EXCEPT !.pc = "appended", !.ts = timestamp]
    /\ UNCHANGED << closed, mmVars, flushDown, sstVars, compDown, reloadDown,
                    fl, cp, cl, last, hist >>
    /\ ObserveReader

\* Still under the write lock: memtable_manager.put / delete, then the call
\* returns True.  When the rotation it causes cannot submit the flush (the
\* executor was shut down) the call raises instead.  The lock is released
\* and a waiting writer is the next to take it.
WriteApply ==
    /\ wr.pc = "appended"
    /\ LET m == MMPut(MM, wr.key, Entry(wr.val, wr.ts, wr.op = "DELETE"), flushDown)
       IN  /\ SetMM(m)
           /\ last' = IF m.raised THEN last
                      ELSE [last EXCEPT ![wr.key] =
                                Entry(wr.val, wr.ts, wr.op = "DELETE")]
    /\ wr' = IF wr.next = NoCall THEN WrIdle
             ELSE [pc |-> "checked", op |-> wr.next.op, key |-> wr.next.key,
                   val |-> wr.next.val, ts |-> 0, next |-> NoCall]
    /\ UNCHANGED << closed, lastTs, wal, flushDown, sstVars, compDown, reloadDown,
                    fl, cp, cl, hist >>
    /\ ObserveReader

(***************************************************************************)
(* A flush worker: MemtableManager._async_flush on the i-th submitted      *)
(* memtable.  The executor starts its work in submission order and runs at *)
(* most FlushWorkers tasks at a time.                                      *)
(***************************************************************************)
RemoveAt(s, i) == SubSeq(s, 1, i - 1) \o SubSeq(s, i + 1, Len(s))

\* The callback up to the end of add_sstable's critical section.
FlushWorkerAdd(i) ==
    /\ i \in 1..Len(flushTasks)
    /\ i <= FlushWorkers
    /\ flushTasks[i].pc = "queued"
    /\ IF MemLen(flushTasks[i].mem) = 0
       THEN /\ flushTasks' = RemoveAt(flushTasks, i)
            /\ UNCHANGED sstVars
       ELSE /\ flushTasks' = IF reloadDown THEN RemoveAt(flushTasks, i)
                            ELSE [flushTasks EXCEPT ![i].pc = "added"]
            /\ SetSST(AddSSTableCall(SST, flushTasks[i].mem, 0, reloadDown))
    /\ hist' = [hist EXCEPT !.pub = Published(@, levels', disk')]
    /\ UNCHANGED << closed, lastTs, wal, active, immQ, seqNo, flushDown, compDown, reloadDown,
                    wr, fl, cp, cl, last >>
    /\ ObserveReader

\* add_sstable's call of _auto_compact, outside the manager lock.  An
\* exception ends the task in _async_flush's handler, before the WAL rewrite.
FlushWorkerAutoCompact(i) ==
    /\ i \in 1..Len(flushTasks)
    /\ flushTasks[i].pc = "added"
    /\ LET s == AutoCompact(SST, compDown)
       IN  /\ SetSST(s)
           /\ flushTasks' = IF s.raised THEN RemoveAt(flushTasks, i)
                            ELSE [flushTasks EXCEPT ![i].pc = "compacted"]
    /\ UNCHANGED << closed, lastTs, wal, active, immQ, seqNo, flushDown, compDown, reloadDown,
                    wr, fl, cp, cl, last, hist >>
    /\ ObserveReader

\* _clear_wal_for_flushed_data, then the task is done.
FlushWorkerClearWal(i) ==
    /\ i \in 1..Len(flushTasks)
    /\ flushTasks[i].pc = "compacted"
    /\ wal' = ClearWalForFlushedData(wal, flushTasks[i].mem)
    /\ flushTasks' = RemoveAt(flushTasks, i)
    /\ UNCHANGED << closed, lastTs, active, immQ, seqNo, flushDown, sstVars, compDown, reloadDown,
                    wr, fl, cp, cl, last, hist >>
    /\ ObserveReader

(***************************************************************************)
(* The compaction worker: SSTableManager._background_compact on the oldest *)
(* submitted job (the compaction executor has one thread).                 *)
(***************************************************************************)
\* A compaction that drops the tombstones at every level.
MergedEntriesWithoutTombstones(key_map, is_bottommost) == DropTombstones(key_map)

\* merged_entries of _background_compact: tombstones are dropped only when
\* the output level is the bottommost.
MergedEntries(key_map, is_bottommost) ==
    IF is_bottommost THEN DropTombstones(key_map) ELSE key_map

\* Merge, the bottommost test, and _create_sstable_for_compaction (the
\* run-ID is taken from the global manifest, which increments it).
BgMerge ==
    /\ compTasks # << >>
    /\ compTasks[1].pc = "queued"
    /\ LET t == compTasks[1]
           key_map == KeyMap(t.sourceEntries \o t.nextEntries)
           is_bottommost == IsBottommost(levels, t.next)
           merged_entries == MergedEntries(key_map, is_bottommost)
       IN  IF MemLen(merged_entries) = 0
           THEN /\ compTasks' = [compTasks EXCEPT ![1].pc = "created",
                                                  ![1].bottom = is_bottommost]
                /\ UNCHANGED << disk, nextId >>
           ELSE /\ compTasks' = [compTasks EXCEPT ![1].pc = "created",
                                                  ![1].bottom = is_bottommost,
                                                  ![1].newId = nextId]
                /\ disk' = (nextId :> merged_entries) @@ disk
                /\ nextId' = nextId + 1
    /\ UNCHANGED << closed, lastTs, wal, mmVars, flushDown, levels, manifest,
                    compacting, compDown, reloadDown, wr, fl, cp, cl, last, hist >>
    /\ ObserveReader

\* SSTableManager._finalize_compaction, the part under the manager lock.
\* _trigger_manifest_reload raises once the reload executor is shut down,
\* which leaves the manifest entries of the old runs in place.
FinalizeCompaction(s, t, rdown) ==
    LET ids == t.sourceIds \cup t.nextIds
        lv1 == [l \in DOMAIN s.levels |->
                   IF l \in {t.src, t.next} THEN SelectIds(s.levels[l], ids)
                   ELSE s.levels[l]]
        lv2 == IF t.newId = -1 THEN lv1
               ELSE (t.next :> Append(LevelRuns(lv1, t.next), t.newId)) @@ lv1
        mf1 == IF t.newId = -1 THEN s.manifest
               ELSE ManifestAdd(s.manifest, t.next, t.newId,
                                MemLen(ReadAll(s.disk, t.newId)))
        mf2 == ManifestRemove(ManifestRemove(mf1, t.src, t.sourceIds), t.next, t.nextIds)
    IN  IF rdown
        THEN [s EXCEPT !.levels = lv2, !.manifest = mf1, !.raised = TRUE]
        ELSE [s EXCEPT !.levels = lv2, !.manifest = mf2]

\* The run-IDs _finalize_compaction collects for deletion.
OldSSTablesToDelete(lv, t) ==
    (Range(LevelRuns(lv, t.src)) \cap t.sourceIds)
        \cup (Range(LevelRuns(lv, t.next)) \cap t.nextIds)

BgFinalize ==
    /\ compTasks # << >>
    /\ compTasks[1].pc = "created"
    /\ LET t == compTasks[1]
           s == FinalizeCompaction(SST, t, reloadDown)
       IN  /\ levels' = s.levels
           /\ manifest' = s.manifest
           /\ compTasks' = [compTasks EXCEPT
                               ![1].pc = IF s.raised THEN "failed" ELSE "finalized",
                               ![1].old = OldSSTablesToDelete(levels, t)]
    /\ UNCHANGED << closed, lastTs, wal, mmVars, flushDown, disk, nextId,
                    compacting, compDown, reloadDown, wr, fl, cp, cl, last, hist >>
    /\ ObserveReader

\* The rest of the job: the files of the old runs are deleted, the next
\* level is checked for a cascading compaction, and the `finally` block
\* takes the job's run-IDs out of the compacting set.
BgCleanup ==
    /\ compTasks # << >>
    /\ compTasks[1].pc \in {"finalized", "failed"}
    /\ LET t == compTasks[1]
           deleted == IF t.pc = "failed" THEN disk
                      ELSE [id \in DOMAIN disk \ t.old |-> disk[id]]
           s0 == SSTState(levels, manifest, deleted, nextId, compacting, Tail(compTasks))
           s1 == IF t.pc = "finalized" /\ t.newId # -1 /\ ShouldCompactLevel(s0, t.next)
                 THEN SubmitBackgroundCompaction(s0, t.next, compDown)
                 ELSE s0
       IN  SetSST([s1 EXCEPT !.compacting = @ \ (t.sourceIds \cup t.nextIds)])
    /\ UNCHANGED << closed, lastTs, wal, mmVars, flushDown, compDown, reloadDown,
                    wr, fl, cp, cl, last, hist >>
    /\ ObserveReader

(***************************************************************************)
(* flush(): LSMKVStore.flush.                                              *)
(***************************************************************************)
\* MemtableManager.flush_active_sync: a non-empty active memtable is wrapped
\* as immutable and enqueued, and a fresh active memtable takes its place.
FlushActiveSync(mm) ==
    [mm EXCEPT !.immQ = DequeAppend(mm.immQ, [mem |-> mm.active, seq |-> mm.seqNo]),
               !.seqNo = mm.seqNo + 1,
               !.active = EmptyMemtable]

\* MemtableManager.remove_flushed_immutable: the memtable leaves the queue.
RemoveFlushedImmutable(q, seq) == SelectSeq(q, LAMBDA im : im.seq # seq)

\* flush() that rotates the active memtable whether or not it holds entries.
FlushUnchecked ==
    /\ fl.pc = "idle"
    /\ hist.flushes < MaxFlushCalls
    /\ hist' = [hist EXCEPT !.flushes = @ + 1]
    /\ SetMM(FlushActiveSync(MM))
    /\ fl' = [pc |-> "rotated", mem |-> active, seq |-> seqNo]
    /\ UNCHANGED << closed, lastTs, wal, flushDown, sstVars, compDown, reloadDown,
                    wr, cp, cl, last >>
    /\ ObserveReader

\* flush_active_sync; an empty active memtable makes flush() raise.
Flush ==
    /\ fl.pc = "idle"
    /\ hist.flushes < MaxFlushCalls
    /\ hist' = [hist EXCEPT !.flushes = @ + 1]
    /\ IF MemLen(active) = 0
       THEN UNCHANGED << mmVars, fl >>
       ELSE /\ SetMM(FlushActiveSync(MM))
            /\ fl' = [pc |-> "rotated", mem |-> active, seq |-> seqNo]
    /\ UNCHANGED << closed, lastTs, wal, flushDown, sstVars, compDown, reloadDown,
                    wr, cp, cl, last >>
    /\ ObserveReader

\* add_sstable up to the release of the manager lock; when it raises, the
\* `finally` block removes the memtable from the queue.
FlushAdd ==
    /\ fl.pc = "rotated"
    /\ SetSST(AddSSTableCall(SST, fl.mem, 0, reloadDown))
    /\ IF reloadDown
       THEN /\ fl' = FlIdle
            /\ immQ' = RemoveFlushedImmutable(immQ, fl.seq)
       ELSE /\ fl' = [fl EXCEPT !.pc = "added"]
            /\ UNCHANGED immQ
    /\ hist' = [hist EXCEPT !.pub = Published(@, levels', disk')]
    /\ UNCHANGED << closed, lastTs, wal, active, seqNo, flushTasks, flushDown,
                    compDown, reloadDown, wr, cp, cl, last >>
    /\ ObserveReader

\* add_sstable's call of _auto_compact.
FlushAutoCompact ==
    /\ fl.pc = "added"
    /\ LET s == AutoCompact(SST, compDown)
       IN  /\ SetSST(s)
           /\ IF s.raised
              THEN /\ fl' = FlIdle
                   /\ immQ' = RemoveFlushedImmutable(immQ, fl.seq)
              ELSE /\ fl' = [fl EXCEPT !.pc = "compacted"]
                   /\ UNCHANGED immQ
    /\ UNCHANGED << closed, lastTs, wal, active, seqNo, flushTasks, flushDown,
                    compDown, reloadDown, wr, cp, cl, last, hist >>
    /\ ObserveReader

\* _clear_wal_for_flushed_data, then remove_flushed_immutable.
FlushFinish ==
    /\ fl.pc = "compacted"
    /\ wal' = ClearWalForFlushedData(wal, fl.mem)
    /\ immQ' = RemoveFlushedImmutable(immQ, fl.seq)
    /\ fl' = FlIdle
    /\ UNCHANGED << closed, lastTs, active, seqNo, flushTasks, flushDown, sstVars,
                    compDown, reloadDown, wr, cp, cl, last, hist >>
    /\ ObserveReader

(***************************************************************************)
(* compact(): LSMKVStore.compact.                                          *)
(***************************************************************************)
\* compact() without its checks for nothing found and nothing live left.
FullCompactUnchecked(s, rdown) ==
    LET lv == s.levels
        total_sstables == SeqSum([i \in 1..Len(GetAllEntries(lv, s.disk)) |-> 1])
        max_level == IF DOMAIN lv = {} THEN 0 ELSE MaxOf(DOMAIN lv)
        target_level == IF max_level = 0 THEN max_level + 1 ELSE max_level
        key_map == KeyMap(GetAllEntries(lv, s.disk))
        compacted_entries == DropTombstones(key_map)
        old_ids == UNION {Range(lv[l]) : l \in DOMAIN lv}
        added == AddSSTableCall(s, compacted_entries, target_level, rdown)
    IN  IF total_sstables = 0
        THEN [s EXCEPT !.raised = TRUE]
        ELSE IF added.raised THEN added
        ELSE [added EXCEPT
                 !.levels = [l \in DOMAIN added.levels |->
                                SelectIds(added.levels[l], old_ids)],
                 !.manifest = [l \in DOMAIN added.manifest |->
                                  SelectSeq(added.manifest[l],
                                            LAMBDA x : ~(l \in DOMAIN lv /\ x.id \in Range(lv[l])))],
                 !.disk = [id \in DOMAIN added.disk \ old_ids |-> added.disk[id]]]

\* SSTableManager.compact, one critical section: every run of every level
\* is merged into one run at the target level, tombstones dropped; the new
\* run is published first, then the old runs are unlisted and deleted.
FullCompact(s, rdown) ==
    LET lv == s.levels
        total_sstables == SeqSum([i \in 1..Len(GetAllEntries(lv, s.disk)) |-> 1])
        max_level == IF DOMAIN lv = {} THEN 0 ELSE MaxOf(DOMAIN lv)
        target_level == IF max_level = 0 THEN max_level + 1 ELSE max_level
        key_map == KeyMap(GetAllEntries(lv, s.disk))
        compacted_entries == DropTombstones(key_map)
        old_ids == UNION {Range(lv[l]) : l \in DOMAIN lv}
        added == AddSSTableCall(s, compacted_entries, target_level, rdown)
    IN  IF total_sstables = 0 \/ MemLen(key_map) = 0 \/ MemLen(compacted_entries) = 0
        THEN [s EXCEPT !.raised = TRUE]
        ELSE IF added.raised THEN added
        ELSE [added EXCEPT
                 !.levels = [l \in DOMAIN added.levels |->
                                SelectIds(added.levels[l], old_ids)],
                 !.manifest = [l \in DOMAIN added.manifest |->
                                  SelectSeq(added.manifest[l],
                                            LAMBDA x : ~(l \in DOMAIN lv /\ x.id \in Range(lv[l])))],
                 !.disk = [id \in DOMAIN added.disk \ old_ids |-> added.disk[id]]]

\* wait_for_compaction returns once no run is marked as compacting.
Compact ==
    /\ cp = "idle"
    /\ hist.compacts < MaxCompactCalls
    /\ compacting = {}
    /\ cp' = "waited"
    /\ hist' = [hist EXCEPT !.compacts = @ + 1, !.late = CalledLate(@, "compact")]
    /\ UNCHANGED << closed, lastTs, wal, mmVars, flushDown, sstVars, compDown,
                    reloadDown, wr, fl, cl, last >>
    /\ ObserveReader

CompactRun ==
    /\ cp = "waited"
    /\ SetSST(FullCompact(SST, reloadDown))
    /\ cp' = "idle"
    /\ hist' = [hist EXCEPT !.listed = Listed(levels),
                          !.retired = Retired(levels, levels')]
    /\ UNCHANGED << closed, lastTs, wal, mmVars, flushDown, compDown, reloadDown,
                    wr, fl, cl, last >>
    /\ ObserveReader

(***************************************************************************)
(* close(): LSMKVStore.close.                                              *)
(***************************************************************************)
Close ==
    /\ cl = "idle"
    /\ closed' = TRUE
    /\ cl' = "flagged"
    /\ hist' = [hist EXCEPT !.pre = IF wr.pc = "idle" THEN [k \in Keys |-> Get(k)]
                                   ELSE NoPre]
    /\ UNCHANGED << lastTs, wal, mmVars, flushDown, sstVars, compDown, reloadDown,
                    wr, fl, cp, last >>
    /\ ObserveReader

\* memtable_manager.force_flush_all(), under the memtable manager's lock.
CloseForceFlush ==
    /\ cl = "flagged"
    /\ LET mems == [i \in 1..Len(immQ) |-> immQ[i].mem] \o << active >>
           c == FlushAllOf([sst |-> SST, wal |-> wal], mems, compDown, reloadDown)
       IN  /\ SetSST(c.sst)
           /\ wal' = c.wal
    /\ immQ' = << >>
    /\ active' = EmptyMemtable
    /\ cl' = "flushed"
    /\ hist' = [hist EXCEPT !.pub = Published(@, levels', disk')]
    /\ UNCHANGED << closed, lastTs, seqNo, flushTasks, flushDown, compDown, reloadDown,
                    wr, fl, cp, last >>
    /\ ObserveReader

\* memtable_manager.close(): flush_executor.shutdown(wait=True) refuses new
\* work at once ...
CloseShutdownFlush ==
    /\ cl = "flushed"
    /\ flushDown' = TRUE
    /\ cl' = "joining"
    /\ UNCHANGED << closed, lastTs, wal, mmVars, sstVars, compDown, reloadDown,
                    wr, fl, cp, last, hist >>
    /\ ObserveReader

\* ... and returns when the submitted flushes are done; then wal.clear().
CloseClearWal ==
    /\ cl = "joining"
    /\ flushTasks = << >>
    /\ wal' = << >>
    /\ cl' = "cleared"
    /\ UNCHANGED << closed, lastTs, mmVars, flushDown, sstVars, compDown, reloadDown,
                    wr, fl, cp, last, hist >>
    /\ ObserveReader

\* sstable_manager.shutdown: wait_for_compaction, then the compaction
\* executor refuses new work ...
CloseShutdownCompaction ==
    /\ cl = "cleared"
    /\ compacting = {}
    /\ compDown' = TRUE
    /\ cl' = "stopping"
    /\ UNCHANGED << closed, lastTs, wal, mmVars, flushDown, sstVars, reloadDown,
                    wr, fl, cp, last, hist >>
    /\ ObserveReader

\* ... its jobs are joined, the reload executor is shut down, and
\* sstable_manager.close() closes the runs.
CloseFinish ==
    /\ cl = "stopping"
    /\ compTasks = << >>
    /\ reloadDown' = TRUE
    /\ cl' = "done"
    /\ UNCHANGED << closed, lastTs, wal, mmVars, flushDown, sstVars, compDown,
                    wr, fl, cp, last, hist >>
    /\ ObserveReader

(***************************************************************************)
(* The process ends (a crash at any step, or an exit after close()) and a  *)
(* new store is constructed on the same directory: LSMKVStore.__init__.    *)
(***************************************************************************)
\* SSTableManager.load_from_manifest: the runs named by the level manifests
\* whose directories exist, in manifest order.
LoadFromManifest(mf, dk) ==
    LET present(l) == SelectSeq([i \in 1..Len(mf[l]) |-> mf[l][i].id],
                                LAMBDA id : id \in DOMAIN dk)
    IN  [l \in {x \in DOMAIN mf : present(x) # << >>} |-> present(l)]

\* The replay loop of LSMKVStore._recover_from_wal.
RECURSIVE ReplayWal(_, _)
ReplayWal(mm, records) ==
    IF records = << >> THEN mm
    ELSE LET r == Head(records)
         IN  ReplayWal(MMPut(mm, r.key, Entry(r.val, r.ts, r.op = "DELETE"), FALSE),
                       Tail(records))

\* max_ts taken over the WAL records alone.
MaxTimestampOfWal(records, contents) ==
    LET stamps == {records[i].ts : i \in 1..Len(records)}
    IN  IF stamps = {} THEN 0 ELSE MaxOf(stamps)
\* max_ts of _recover_from_wal over the WAL records and the entries of the runs.
MaxTimestamp(records, contents) ==
    LET stamps == {records[i].ts : i \in 1..Len(records)}
                    \cup {contents[i][k].ts : i \in 1..Len(contents), k \in Keys}
    IN  IF stamps = {} THEN 0 ELSE MaxOf(stamps)

\* The process ends with the manifests `mf`, the run files `dk` and the
\* run-ID counter `nid` on disk, and a new store is constructed.
RestartFrom(mf, dk, nid) ==
    /\ hist.restarts < MaxRestarts
    /\ LET lv == LoadFromManifest(mf, dk)
           max_ts == MaxTimestamp(wal, GetAllEntries(lv, dk))
           durable == wr.pc = "appended" /\ \E i \in 1..Len(wal) : wal[i].ts = wr.ts
       IN  /\ levels' = lv
           /\ lastTs' = max_ts
           /\ SetMM(ReplayWal(MMState(EmptyMemtable, << >>, 0, << >>), wal))
           /\ last' = IF durable
                      THEN [last EXCEPT ![wr.key] =
                               Entry(wr.val, wr.ts, wr.op = "DELETE")]
                      ELSE last
    /\ manifest' = mf
    /\ disk' = dk
    /\ nextId' = nid
    /\ closed' = FALSE
    /\ compacting' = {}
    /\ compTasks' = << >>
    /\ flushDown' = FALSE
    /\ compDown' = FALSE
    /\ reloadDown' = FALSE
    /\ wr' = WrIdle
    /\ fl' = FlIdle
    /\ cp' = "idle"
    /\ cl' = "idle"
    /\ rd' = RdIdle
    /\ hist' = [hist EXCEPT !.restarts = @ + 1]
    /\ UNCHANGED wal

\* A crash between two steps of the model, or an exit after close().
Restart == RestartFrom(manifest, disk, nextId)

\* A crash inside SSTableManager.compact after add_sstable has published
\* the compacted run: the old runs of the levels below `upto`, taken in the
\* order of the level dictionary, are out of their manifests and deleted,
\* those of the other levels are still listed.
CompactCrashPoints(s) ==
    LET lv == s.levels
        max_level == IF DOMAIN lv = {} THEN 0 ELSE MaxOf(DOMAIN lv)
        target_level == IF max_level = 0 THEN max_level + 1 ELSE max_level
        added == AddSSTable(s, DropTombstones(KeyMap(GetAllEntries(lv, s.disk))), target_level)
        gone(upto) == UNION {Range(lv[l]) : l \in {x \in DOMAIN lv : x < upto}}
    IN  {[added EXCEPT
             !.manifest = [l \in DOMAIN added.manifest |->
                              SelectSeq(added.manifest[l], LAMBDA x : x.id \notin gone(upto))],
             !.disk = [id \in DOMAIN added.disk \ gone(upto) |-> added.disk[id]]]
         : upto \in 0..max_level}

CompactRunCrash ==
    /\ cp = "waited"
    /\ ~FullCompact(SST, reloadDown).raised
    /\ \E p \in CompactCrashPoints(SST) : RestartFrom(p.manifest, p.disk, p.nextId)

(***************************************************************************)
(* get(): LSMKVStore.get, step by step.                                    *)
(***************************************************************************)
\* The closed-store check and memtable_manager.get.
Read(k) ==
    /\ rd.pc \in {"idle", "done"}
    /\ hist.reads < MaxReads
    /\ ~closed
    /\ rd' = [pc |-> IF MMGet(active, immQ, k) # NoEntry THEN "done" ELSE "missed",
              key |-> k, snap |-> << >>,
              result |-> GetResult(MMGet(active, immQ, k)),
              legal |-> {Get(k), GetResult(last[k])}]
    /\ hist' = [hist EXCEPT !.reads = @ + 1]
    /\ UNCHANGED << closed, lastTs, wal, mmVars, flushDown, sstVars, compDown,
                    reloadDown, wr, fl, cp, cl, last >>

\* SSTableManager.get: the snapshot of the level lists under the lock ...
ReadSnapshot ==
    /\ rd.pc = "missed"
    /\ rd' = [rd EXCEPT !.pc = "scan", !.snap = levels]
    /\ UNCHANGED << closed, lastTs, wal, mmVars, flushDown, sstVars, compDown,
                    reloadDown, wr, fl, cp, cl, last, hist >>

\* ... and the search of the snapshot's runs outside the lock.
ReadScan ==
    /\ rd.pc = "scan"
    /\ rd' = [rd EXCEPT !.pc = "done",
                        !.result = GetResult(SSTGet(rd.snap, disk, rd.key))]
    /\ UNCHANGED << closed, lastTs, wal, mmVars, flushDown, sstVars, compDown,
                    reloadDown, wr, fl, cp, cl, last, hist >>

(***************************************************************************)
(* I/O errors: SSTable.write raises part-way (storage/sstable.py).  The    *)
(* run directory then does not exist, or exists with a data file cut short *)
(* and without its bloom filter or sparse index.                           *)
(***************************************************************************)
\* A run directory whose write did not finish: some of the entries, and the
\* mark of the missing files.
TornMark == "torn"
TornRuns(entries) ==
    LET written == {k \in Keys : entries[k] # NoEntry}
    IN  {[k \in Keys \cup {TornMark} |-> IF k \in S THEN entries[k] ELSE NoEntry] :
            S \in (SUBSET written) \ {written}}
IsComplete(run) == DOMAIN run = Keys

\* What a failed SSTable.write of `entries` can leave behind: no directory
\* (dir = FALSE), or a directory with the torn run.
WriteOutcomes(entries) == {[dir |-> d, run |-> r] : d \in BOOLEAN, r \in TornRuns(entries)}

\* SSTable(self.sstables_dir, sstable_id).write(entries) raising, seen from
\* the SSTable manager: nothing but the directory changes.
SSTableWriteFails(s, id, left) ==
    IF ~left.dir THEN [s EXCEPT !.raised = TRUE]
    ELSE [s EXCEPT !.disk = (id :> left.run) @@ s.disk, !.raised = TRUE]

\* An add_sstable that lists the run before its write has finished.
AddSSTableListsBeforeWrite(s, left) ==
    [SSTableWriteFails(s, s.nextId, left) EXCEPT
        !.levels = (0 :> Append(LevelRuns(s.levels, 0), s.nextId)) @@ s.levels,
        !.manifest = ManifestAdd(s.manifest, 0, s.nextId, 0)]

\* add_sstable when sstable.write raises: the run-ID was peeked, neither the
\* manifest nor the level list nor next_sstable_id is touched.
AddSSTableWriteFails(s, left) == SSTableWriteFails(s, s.nextId, left)

\* _create_sstable_for_compaction when sstable.write raises: the run-ID was
\* taken from the global manifest, which has incremented and saved it.
CreateSSTableForCompactionFails(s, left) ==
    [SSTableWriteFails(s, s.nextId, left) EXCEPT !.nextId = s.nextId + 1]

\* A flush worker whose add_sstable raises in sstable.write: _async_flush
\* catches the exception, prints it, and the task is over.
FlushWorkerWriteFails(i) ==
    /\ i \in 1..Len(flushTasks)
    /\ i <= FlushWorkers
    /\ flushTasks[i].pc = "queued"
    /\ MemLen(flushTasks[i].mem) > 0
    /\ hist.faults < MaxWriteFaults
    /\ \E left \in WriteOutcomes(flushTasks[i].mem) :
          SetSST(AddSSTableWriteFails(SST, left))
    /\ flushTasks' = RemoveAt(flushTasks, i)
    /\ hist' = [hist EXCEPT !.faults = @ + 1]
    /\ UNCHANGED << closed, lastTs, wal, active, immQ, seqNo, flushDown, compDown,
                    reloadDown, wr, fl, cp, cl, last >>
    /\ ObserveReader

\* The compaction worker when _create_sstable_for_compaction raises: the
\* handler of _background_compact prints the exception and its `finally`
\* block takes the job's run-IDs out of the compacting set.
BgMergeWriteFails ==
    /\ compTasks # << >>
    /\ compTasks[1].pc = "queued"
    /\ hist.faults < MaxWriteFaults
    /\ LET t == compTasks[1]
           key_map == KeyMap(t.sourceEntries \o t.nextEntries)
           merged_entries == MergedEntries(key_map, IsBottommost(levels, t.next))
       IN  /\ MemLen(merged_entries) > 0
           /\ \E left \in WriteOutcomes(merged_entries) :
                 SetSST([CreateSSTableForCompactionFails(SST, left) EXCEPT
                            !.tasks = Tail(compTasks),
                            !.compacting = @ \ (t.sourceIds \cup t.nextIds)])
    /\ hist' = [hist EXCEPT !.faults = @ + 1]
    /\ UNCHANGED << closed, lastTs, wal, mmVars, flushDown, compDown, reloadDown,
                    wr, fl, cp, cl, last >>
    /\ ObserveReader

\* The entries a full compaction writes: newest per key, tombstones dropped.
CompactedEntries(s) == DropTombstones(KeyMap(GetAllEntries(s.levels, s.disk)))

\* compact() when the add_sstable of SSTableManager.compact raises in
\* sstable.write: the exception leaves compact() before any old run is
\* unlisted or deleted.
CompactRunWriteFails ==
    /\ cp = "waited"
    /\ hist.faults < MaxWriteFaults
    /\ MemLen(CompactedEntries(SST)) > 0
    /\ \E left \in WriteOutcomes(CompactedEntries(SST)) :
          SetSST(AddSSTableWriteFails(SST, left))
    /\ cp' = "idle"
    /\ hist' = [hist EXCEPT !.faults = @ + 1, !.listed = Listed(levels),
                          !.retired = 0]
    /\ UNCHANGED << closed, lastTs, wal, mmVars, flushDown, compDown, reloadDown,
                    wr, fl, cl, last >>
    /\ ObserveReader

(***************************************************************************)
(* Argument validation: LSMKVStore._validate_key and _validate_value, the  *)
(* first statements of put, get and delete.  A string argument is          *)
(* described by its number of characters and by the number of bytes each   *)
(* character takes in UTF-8; Python's len(str) is the number of characters.*)
(***************************************************************************)
\* LSMKVStore.MAX_KEY_SIZE and MAX_VALUE_SIZE.
MaxKeySize == 1024
MaxValueSize == 1048576

\* The strings tried as an argument checked against `limit`: empty, short,
\* and around the limit, of one- to four-byte characters.
Texts(limit) == [chars : {0, 1, limit - 1, limit, limit + 1}, width : 1..4]

\* _validate_key raises: `not key`, or len(key) > MAX_KEY_SIZE.
ValidateKey(key) == key.chars = 0 \/ key.chars > MaxKeySize
\* _validate_value raises: len(value) > MAX_VALUE_SIZE.
ValidateValue(value) == value.chars > MaxValueSize

\* A store, open or closed, and a thread about to call put, get or delete
\* with some key and, for put, some value.
InitValidate ==
    /\ closed \in BOOLEAN
    /\ lastTs = 0
    /\ wal = << >>
    /\ active = EmptyMemtable
    /\ immQ = << >>
    /\ seqNo = 0
    /\ flushTasks = << >>
    /\ flushDown = FALSE
    /\ levels = << >>
    /\ manifest = << >>
    /\ disk = << >>
    /\ nextId = 0
    /\ compacting = {}
    /\ compTasks = << >>
    /\ compDown = FALSE
    /\ reloadDown = FALSE
    /\ \E op \in {"PUT", "GET", "DELETE"}, key \in Texts(MaxKeySize),
          value \in Texts(MaxValueSize) :
          wr = [pc |-> "idle", op |-> op, key |-> key, val |-> value, ts |-> 0,
                next |-> NoCall]
    /\ fl = FlIdle
    /\ cp = "idle"
    /\ cl = "idle"
    /\ rd = RdIdle
    /\ last = [k \in Keys |-> NoEntry]
    /\ hist = [ops |-> 0, flushes |-> 0, compacts |-> 0, restarts |-> 0,
               reads |-> 0, faults |-> 0, pre |-> NoPre,
               pub |-> [k \in Keys |-> 0], late |-> {}, listed |-> 0, retired |-> 0]

\* The call up to the write lock (put, delete) or to memtable_manager.get
\* (get): the validation raises, or the closed-store check raises, or the
\* call goes on.
Call(op) ==
    /\ wr.pc = "idle"
    /\ wr.op = op
    /\ wr' = [wr EXCEPT !.pc =
                 IF ValidateKey(wr.key) \/ (op = "PUT" /\ ValidateValue(wr.val))
                 THEN "rejected"
                 ELSE IF closed THEN "closed" ELSE "checked"]
    /\ UNCHANGED << closed, lastTs, wal, mmVars, flushDown, sstVars, compDown, reloadDown,
                    fl, cp, cl, rd, last, hist >>

(***************************************************************************)
(* Specifications.                                                         *)
(***************************************************************************)
Writes(budget) ==
    \/ \E k \in Keys, v \in Values : Put(k, v, budget)
    \/ \E k \in Keys : Delete(k, budget)
    \/ WriteAppend
    \/ WriteApply

Workers ==
    \/ \E i \in 1..FlushWorkers : FlushWorkerAdd(i)
    \/ \E i \in 1..FlushWorkers : FlushWorkerAutoCompact(i)
    \/ \E i \in 1..FlushWorkers : FlushWorkerClearWal(i)
    \/ BgMerge
    \/ BgFinalize
    \/ BgCleanup

Maintenance ==
    \/ Flush
    \/ FlushAdd
    \/ FlushAutoCompact
    \/ FlushFinish
    \/ Compact
    \/ CompactRun

Lifecycle ==
    \/ Close
    \/ CloseForceFlush
    \/ CloseShutdownFlush
    \/ CloseClearWal
    \/ CloseShutdownCompaction
    \/ CloseFinish
    \/ Restart

Reads ==
    \/ \E k \in Keys : Read(k)
    \/ ReadSnapshot
    \/ ReadScan

Faults ==
    \/ \E i \in 1..FlushWorkers : FlushWorkerWriteFails(i)
    \/ BgMergeWriteFails
    \/ CompactRunWriteFails

Next == Writes(MaxOps) \/ Workers \/ Maintenance \/ Lifecycle \/ Reads

Spec == Init /\ [][Next]_vars

\* The store under writes, with its background workers and the maintenance
\* calls flush() and compact(); no reader thread, no close, no restart.
NextCore == Writes(MaxOps) \/ Workers \/ Maintenance
SpecCore == Init /\ [][NextCore]_vars

\* The store under writes and compact(), with its background workers.
NextAuto == Writes(MaxOpsAuto) \/ Workers \/ Compact \/ CompactRun
SpecAuto == Init /\ [][NextAuto]_vars

\* The store under writes with a concurrent reader.
NextRead == Writes(MaxOps) \/ Workers \/ Reads
SpecRead == Init /\ [][NextRead]_vars

\* The store under writes through close(), crash and restart.
NextLife == Writes(MaxOps) \/ Workers \/ Lifecycle
SpecLife == Init /\ [][NextLife]_vars

\* The store under the writes of two threads and compact() through close(),
\* and the calls made on it after close() has returned.
NextShut ==
    \/ Writes(MaxOps) \/ Workers \/ Compact \/ CompactRun
    \/ \E op \in {"PUT", "DELETE"}, k \in Keys, v \in Values : WriteCheckWaiting(op, k, v, MaxOps)
    \/ Close \/ CloseForceFlush \/ CloseShutdownFlush \/ CloseClearWal
    \/ CloseShutdownCompaction \/ CloseFinish
SpecShut == Init /\ [][NextShut]_vars

\* Two writer threads and the background workers.
NextWriters ==
    \/ Writes(MaxOps) \/ Workers
    \/ \E op \in {"PUT", "DELETE"}, k \in Keys, v \in Values : WriteCheckWaiting(op, k, v, MaxOps)
SpecWriters == Init /\ [][NextWriters]_vars

\* The store under writes, flush() and compact() with its background
\* workers, and a crash inside the manifest updates of compact(), followed
\* by a restart.
NextCrash ==
    \/ Writes(MaxOps) \/ Workers \/ Maintenance
    \/ CompactRunCrash
SpecCrash == Init /\ [][NextCrash]_vars

\* The store under writes and compact() with its background workers, run
\* writes that fail, and a crash followed by a restart.
NextFault == Writes(MaxOps) \/ Workers \/ Compact \/ CompactRun \/ Faults \/ Restart
SpecFault == Init /\ [][NextFault]_vars

\* The argument validation of put, get and delete over the strings tried.
SpecValidate == InitValidate /\ [][\E op \in {"PUT", "GET", "DELETE"} : Call(op)]_vars

\* The store under writes and flush() through close().
NextStop ==
    \/ Writes(MaxOpsStop) \/ Workers
    \/ Flush \/ FlushAdd \/ FlushAutoCompact \/ FlushFinish
    \/ Close \/ CloseForceFlush \/ CloseShutdownFlush \/ CloseClearWal
    \/ CloseShutdownCompaction \/ CloseFinish
SpecStop == Init /\ [][NextStop]_vars

(***************************************************************************)
(* wal.log as text (storage/wal.py, core/dto.py).  A line is described by  *)
(* what json.loads and WALRecord.deserialize make of it: `shape` tells     *)
(* blank lines, bytes that are no UTF-8 text, text that is no JSON (garbage*)
(* or the torn prefix of a record), JSON values that are no object, and    *)
(* JSON objects; for an object `has` is the set of its members.            *)
(***************************************************************************)
\* Lines of the WAL file explored.
MaxWalLines == 2

\* WALRecord.serialize: a JSON object with the members op, key, value, ts.
Serialize(record) ==
    [shape |-> "object", has |-> {"op", "key", "value", "ts"},
     op |-> record.op, key |-> record.key, value |-> record.val, ts |-> record.ts]

\* WALRecord.deserialize: the record, or the exception raised.  json.loads
\* raises JSONDecodeError, a ValueError; record["op"] raises TypeError on a
\* value that cannot be indexed by a string and KeyError on a missing member;
\* OperationType(...) raises ValueError on an unknown name.
Deserialize(line) ==
    LET rec == [op |-> line.op, key |-> line.key, val |-> line.value, ts |-> line.ts]
        fail(e) == [raised |-> e, record |-> rec]
    IN  IF line.shape \in {"blank", "text"} THEN fail("ValueError")
        ELSE IF line.shape = "value" THEN fail("TypeError")
        ELSE IF "op" \notin line.has THEN fail("KeyError")
        ELSE IF line.op \notin {"PUT", "DELETE"} THEN fail("ValueError")
        ELSE IF {"key", "value", "ts"} \ line.has # {} THEN fail("KeyError")
        ELSE [raised |-> "none", record |-> rec]

\* A WAL file of up to MaxWalLines lines of any content, and a thread that
\* has entered WAL.read_all.
InitWalRead ==
    /\ closed = FALSE
    /\ lastTs = 0
    /\ \E n \in 0..MaxWalLines :
          wal \in [1..n ->
                     [shape : {"object"}, has : SUBSET {"op", "key", "value", "ts"},
                      op : {"PUT", "DELETE", "NOP"}, key : {"a"}, value : {"v1"},
                      ts : {1}]
                     \cup [shape : {"blank", "bytes", "text", "value"}, has : {{}},
                           op : {"NOP"}, key : {"a"}, value : {"v1"}, ts : {1}]]
    /\ active = EmptyMemtable
    /\ immQ = << >>
    /\ seqNo = 0
    /\ flushTasks = << >>
    /\ flushDown = FALSE
    /\ levels = << >>
    /\ manifest = << >>
    /\ disk = << >>
    /\ nextId = 0
    /\ compacting = {}
    /\ compTasks = << >>
    /\ compDown = FALSE
    /\ reloadDown = FALSE
    /\ wr = WrIdle
    /\ fl = FlIdle
    /\ cp = "idle"
    /\ cl = "idle"
    /\ rd = [pc |-> "reading", pos |-> 1, records |-> << >>, raised |-> "none"]
    /\ last = [k \in Keys |-> NoEntry]
    /\ hist = [ops |-> 0, flushes |-> 0, compacts |-> 0, restarts |-> 0,
               reads |-> 0, faults |-> 0, pre |-> NoPre,
               pub |-> [k \in Keys |-> 0], late |-> {}, listed |-> 0, retired |-> 0]

\* WAL.read_all, one turn of `for line in f`: the text-mode iteration raises
\* UnicodeDecodeError outside the try block; a blank line is passed over;
\* a ValueError of deserialize is caught and the line skipped; any other
\* exception leaves read_all; after the last line the records are returned.
WalReadAll ==
    /\ rd.pc = "reading"
    /\ rd' = IF rd.pos > Len(wal) THEN [rd EXCEPT !.pc = "returned"]
             ELSE LET line == wal[rd.pos]
                      out == Deserialize(line)
                  IN  IF line.shape = "bytes"
                      THEN [rd EXCEPT !.pc = "raised", !.raised = "UnicodeDecodeError"]
                      ELSE IF line.shape = "blank" \/ out.raised = "ValueError"
                      THEN [rd EXCEPT !.pos = @ + 1]
                      ELSE IF out.raised # "none"
                      THEN [rd EXCEPT !.pc = "raised", !.raised = out.raised]
                      ELSE [rd EXCEPT !.pos = @ + 1,
                                      !.records = Append(@, out.record)]
    /\ UNCHANGED << closed, lastTs, wal, mmVars, flushDown, sstVars, compDown, reloadDown,
                    wr, fl, cp, cl, last, hist >>

SpecWalRead == InitWalRead /\ [][WalReadAll]_vars

(***************************************************************************)
(* Locks.  Each call and each background task is followed through the      *)
(* locks it takes: a thread is the list of its steps, its position, and    *)
(* the locks it holds.  The locks are "write" (LSMKVStore._write_lock),    *)
(* "timestamp" (_timestamp_lock), "wal" (WAL._lock), "mm"                  *)
(* (MemtableManager.lock), "sst" (SSTableManager.lock), "compaction"       *)
(* (_compaction_lock), "reload" (_manifest_reload_lock), "lmm"             *)
(* (LevelManifestManager.lock), "lm" (LevelManifest.lock; no thread holds  *)
(* the lock of one level while it takes that of another, so one lock       *)
(* stands for them all), "global" (GlobalManifest.lock) and "load"         *)
(* (LazySSTable._load_lock, likewise).  A step is "acq" / "rel" of a       *)
(* `with` block, "use" for a `with` block that takes no other lock and     *)
(* waits for nothing, "submit" to an executor (taken or not, as the data   *)
(* decide), "shutdown" and "join" for executor.shutdown(wait=True),        *)
(* "closed?" and "close!" for the _closed flag, and "finally" where an     *)
(* exception raised earlier in the list is caught.                         *)
(***************************************************************************)
\* Tasks submitted to one executor.
MaxSubmitted == 1
\* Calls made while the locks are followed.
MaxLockCalls == 2

Step(op, arg) == << [op |-> op, arg |-> arg] >>

\* SSTableManager._get_level_stats: get_level_manifest, which may create the
\* LevelManifest under the manager's lock, then total_entries.
LevelStatsLocks ==
    Step("acq", "lmm") \o Step("use", "lm") \o Step("rel", "lmm") \o Step("use", "lm")

\* _submit_background_compaction: the snapshot under the manager lock, the
\* entries read outside it, the IDs marked, the job submitted.
SubmitBackgroundCompactionLocks ==
    Step("use", "sst") \o Step("use", "load") \o Step("use", "compaction")
        \o LevelStatsLocks \o Step("submit", "compaction")

\* _auto_compact when holding _compaction_lock across the submission.
AutoCompactLocksNested ==
    {LevelStatsLocks,
     LevelStatsLocks \o Step("acq", "compaction") \o SubmitBackgroundCompactionLocks
         \o Step("rel", "compaction")}
\* _auto_compact: no level is eligible; or one is, its IDs are tested under
\* _compaction_lock and, the lock released, the compaction is submitted.
AutoCompactLocks ==
    {LevelStatsLocks,
     LevelStatsLocks \o Step("use", "compaction") \o SubmitBackgroundCompactionLocks}

SSTableManagerLocks ==
    LET manifest_add == Step("acq", "lmm") \o Step("use", "global") \o Step("use", "lm")
                            \o Step("rel", "lmm")
        manifest_remove == Step("acq", "lmm") \o Step("use", "lm") \o Step("rel", "lmm")
        trigger_reload == Step("acq", "reload") \o Step("submit", "reload")
                              \o Step("rel", "reload")
        add_sstable == Step("acq", "sst") \o Step("use", "global") \o manifest_add
                           \o trigger_reload \o Step("rel", "sst")
        finalize == Step("acq", "sst") \o manifest_add \o trigger_reload
                        \o manifest_remove \o Step("rel", "sst") \o Step("use", "load")
    IN  [add_sstable |-> add_sstable,
         get |-> Step("use", "sst") \o Step("use", "load"),
         \* compact: the manager lock held from the count of the runs to the
         \* deletion of the old ones, add_sstable(auto_compact=False) inside.
         compact |->
             {Step("use", "sst"),
              Step("acq", "sst") \o Step("acq", "sst") \o Step("use", "load")
                  \o Step("rel", "sst") \o add_sstable \o manifest_remove
                  \o Step("use", "load") \o Step("rel", "sst")},
         \* _background_compact: is_bottommost, _create_sstable_for_compaction,
         \* _finalize_compaction, the cascade under the manager lock, and the
         \* finally block that unmarks the IDs.
         background_compact |->
             Step("use", "sst")
                 \o Step("acq", "sst") \o Step("use", "global") \o Step("rel", "sst")
                 \o finalize
                 \o Step("acq", "sst") \o LevelStatsLocks \o SubmitBackgroundCompactionLocks
                 \o Step("rel", "sst")
                 \o Step("finally", "") \o Step("use", "compaction"),
         \* _background_manifest_reload: discover_levels, get_levels,
         \* get_level_manifest and LevelManifest._load.
         manifest_reload |->
             Step("acq", "lmm") \o Step("use", "lm") \o Step("rel", "lmm")
                 \o Step("use", "lmm") \o Step("use", "lmm") \o Step("use", "lm"),
         wait_for_compaction |-> Step("use", "compaction"),
         shutdown |->
             Step("use", "compaction")
                 \o Step("shutdown", "compaction") \o Step("join", "compaction")
                 \o Step("shutdown", "reload") \o Step("join", "reload"),
         close |-> Step("acq", "sst") \o Step("use", "load") \o Step("rel", "sst")]

\* MemtableManager.flush_active_sync and remove_flushed_immutable: each works
\* under the manager's lock.
FlushActiveSyncLocks == Step("use", "mm")

\* The calls of LSMKVStore and the work of a flush worker, with the steps of
\* MemtableManager and WAL they go through.
KVStoreLocks ==
    LET sst == SSTableManagerLocks
        \* MemtableManager.put: the entry stored; when the memtable is full,
        \* _rotate_memtable and _check_and_flush under the same lock.
        mm_put == {Step("use", "mm"),
                   Step("acq", "mm") \o Step("submit", "flush") \o Step("rel", "mm")}
        \* _flush_memtable_to_sstable: add_sstable, _auto_compact, and the
        \* WAL rewritten by _clear_wal_for_flushed_data.
        flush_memtable == {sst.add_sstable \o ac \o Step("use", "wal") : ac \in AutoCompactLocks}
    IN  [put |-> {Step("closed?", "") \o Step("acq", "write") \o Step("use", "timestamp")
                      \o Step("use", "wal") \o p \o Step("rel", "write") : p \in mm_put},
         get |-> {Step("closed?", "") \o Step("use", "mm"),
                  Step("closed?", "") \o Step("use", "mm") \o sst.get},
         \* flush: the rotation, add_sstable, the WAL rewrite, and in the
         \* finally block the memtable taken off the queue.
         flush |-> {FlushActiveSyncLocks \o f \o Step("finally", "") \o FlushActiveSyncLocks
                        : f \in flush_memtable},
         compact |-> {sst.wait_for_compaction \o c : c \in sst.compact},
         \* close: the flag, force_flush_all holding the manager lock over
         \* the flush callback, the flush executor shut down, the WAL
         \* cleared, SSTableManager.shutdown and SSTableManager.close.
         close |-> {Step("close!", "") \o Step("acq", "mm") \o f \o Step("rel", "mm")
                        \o Step("shutdown", "flush") \o Step("join", "flush")
                        \o Step("use", "wal") \o sst.shutdown \o sst.close
                        : f \in flush_memtable \cup {<< >>}},
         flush_task |-> flush_memtable,
         compaction_task |-> {sst.background_compact},
         reload_task |-> {sst.manifest_reload}]

\* A thread that has made no call yet.
NoThread == [prog |-> << >>, pc |-> 0, held |-> << >>]

\* The threads: the five callers, and the tasks of the executors.
LockThreads ==
    {[kind |-> k, i |-> 0] : k \in {"wr", "rd", "fl", "cp", "cl"}}
        \cup {[kind |-> "flush", i |-> i] : i \in 1..Len(flushTasks)}
        \cup {[kind |-> "sst", i |-> i] : i \in 1..Len(compTasks)}

ThreadAt(h) ==
    CASE h.kind = "wr" -> wr
      [] h.kind = "rd" -> rd
      [] h.kind = "fl" -> fl
      [] h.kind = "cp" -> cp
      [] h.kind = "cl" -> cl
      [] h.kind = "flush" -> flushTasks[h.i].thread
      [] OTHER -> compTasks[h.i].thread

\* The first step from position p on that can make the thread wait or that
\* changes what others see.  The `with` blocks of the timestamp lock, the WAL
\* lock, LevelManifest.lock, GlobalManifest.lock and LazySSTable._load_lock
\* take no lock and wait for nothing inside, so these locks are always given
\* back: the thread passes them in the step that brings it there.
Advance(prog, p) ==
    LET passed(q) == prog[q].op = "use"
                        /\ prog[q].arg \in {"timestamp", "wal", "lm", "global", "load"}
    IN  CHOOSE q \in p..(Len(prog) + 1) :
            /\ q <= Len(prog) => ~passed(q)
            /\ \A r \in p..(q - 1) : passed(r)

Finished(th) == th.pc = 0 \/ th.pc > Len(th.prog)

\* The thread can take its next step: a lock is free, or is one the thread
\* holds already and a threading.RLock (the others are threading.Lock); the executor joined has no task left; a task has
\* a worker of its pool (FlushWorkers for flushes, one for each of the
\* compaction and the manifest-reload executors).
Runnable(h) ==
    LET th == ThreadAt(h)
        ins == th.prog[th.pc]
    IN  /\ ~Finished(th)
        /\ h.kind = "flush" => h.i <= FlushWorkers
        /\ h.kind = "sst" => \A j \in 1..(h.i - 1) : compTasks[j].pool # compTasks[h.i].pool
        /\ ins.op \in {"acq", "use"}
              => /\ \A o \in LockThreads \ {h} : ins.arg \notin Range(ThreadAt(o).held)
                 /\ \/ ins.arg \in {"mm", "sst", "lmm", "lm", "global"}
                    \/ ins.arg \notin Range(th.held)
        /\ ins.op = "join"
              => IF ins.arg = "flush" THEN flushTasks = << >>
                 ELSE \A j \in 1..Len(compTasks) : compTasks[j].pool # ins.arg

\* One step of a thread.  An exception (the closed store, a submission to an
\* executor that has been shut down) leaves every `with` block, so releases
\* every lock, and goes on at the finally block if there is one ahead.
LockStep(h) ==
    LET th == ThreadAt(h)
        ins == th.prog[th.pc]
        next == [th EXCEPT !.pc = Advance(th.prog, @ + 1)]
        ahead == {p \in (th.pc + 1)..Len(th.prog) : th.prog[p].op = "finally"}
        raise == [th EXCEPT !.held = << >>,
                            !.pc = IF ahead = {} THEN Len(th.prog) + 1
                                   ELSE CHOOSE p \in ahead : \A q \in ahead : p <= q]
        down == CASE ins.arg = "flush" -> flushDown
                  [] ins.arg = "compaction" -> compDown
                  [] OTHER -> reloadDown
        pool == IF ins.op = "submit" THEN ins.arg ELSE "flush"
        programs == CASE ins.arg = "flush" -> KVStoreLocks.flush_task
                      [] ins.arg = "compaction" -> KVStoreLocks.compaction_task
                      [] OTHER -> KVStoreLocks.reload_task
    IN  /\ Runnable(h)
        /\ \E taken \in {ins.op = "submit" /\ (down \/ hist.submitted[pool] < MaxSubmitted),
                          FALSE},
              prog \in programs :
              LET th2 == CASE ins.op = "acq" -> [next EXCEPT !.held = Append(@, ins.arg)]
                           [] ins.op = "rel" -> [next EXCEPT !.held = SubSeq(@, 1, Len(@) - 1)]
                           [] ins.op = "closed?" -> IF closed THEN raise ELSE next
                           [] ins.op = "submit" -> IF taken /\ down THEN raise ELSE next
                           [] OTHER -> next
                  new == IF taken /\ ~down
                         THEN << [pool |-> ins.arg,
                                  thread |-> [prog |-> prog, pc |-> Advance(prog, 1),
                                              held |-> << >>]] >>
                         ELSE << >>
                  Store(q, i) == IF Finished(th2)
                               THEN SubSeq(q, 1, i - 1) \o SubSeq(q, i + 1, Len(q))
                               ELSE [q EXCEPT ![i].thread = th2]
              IN  /\ wr' = IF h.kind = "wr" THEN th2 ELSE wr
                  /\ rd' = IF h.kind = "rd" THEN th2 ELSE rd
                  /\ fl' = IF h.kind = "fl" THEN th2 ELSE fl
                  /\ cp' = IF h.kind = "cp" THEN th2 ELSE cp
                  /\ cl' = IF h.kind = "cl" THEN th2 ELSE cl
                  /\ flushTasks' = (IF h.kind = "flush" THEN Store(flushTasks, h.i)
                                    ELSE flushTasks)
                                      \o (IF ins.arg = "flush" THEN new ELSE << >>)
                  /\ compTasks' = (IF h.kind = "sst" THEN Store(compTasks, h.i)
                                   ELSE compTasks)
                                     \o (IF ins.arg # "flush" THEN new ELSE << >>)
                  /\ hist' = IF new = << >> THEN hist
                             ELSE [hist EXCEPT !.submitted[pool] = @ + 1]
        /\ closed' = (closed \/ ins.op = "close!")
        /\ flushDown' = (flushDown \/ (ins.op = "shutdown" /\ ins.arg = "flush"))
        /\ compDown' = (compDown \/ (ins.op = "shutdown" /\ ins.arg = "compaction"))
        /\ reloadDown' = (reloadDown \/ (ins.op = "shutdown" /\ ins.arg = "reload"))
        /\ UNCHANGED << lastTs, wal, active, immQ, seqNo, levels, manifest, disk, nextId,
                        compacting, last >>

\* A caller enters put or delete (any number of times), get, flush, compact
\* or close (once each), MaxLockCalls calls in all.
LockCall(kind) ==
    LET programs == CASE kind = "wr" -> KVStoreLocks.put
                      [] kind = "rd" -> KVStoreLocks.get
                      [] kind = "fl" -> KVStoreLocks.flush
                      [] kind = "cp" -> KVStoreLocks.compact
                      [] OTHER -> KVStoreLocks.close
        th == ThreadAt([kind |-> kind, i |-> 0])
    IN  /\ hist.ops < MaxLockCalls
        /\ IF kind = "wr" THEN Finished(th) ELSE th.pc = 0
        /\ \E prog \in programs :
              LET th2 == [prog |-> prog, pc |-> Advance(prog, 1), held |-> << >>]
              IN  /\ wr' = IF kind = "wr" THEN th2 ELSE wr
                  /\ rd' = IF kind = "rd" THEN th2 ELSE rd
                  /\ fl' = IF kind = "fl" THEN th2 ELSE fl
                  /\ cp' = IF kind = "cp" THEN th2 ELSE cp
                  /\ cl' = IF kind = "cl" THEN th2 ELSE cl
        /\ hist' = [hist EXCEPT !.ops = @ + 1]
        /\ UNCHANGED << closed, lastTs, wal, mmVars, flushDown, sstVars, compDown,
                        reloadDown, last >>

InitLocks ==
    /\ closed = FALSE
    /\ lastTs = 0
    /\ wal = << >>
    /\ active = EmptyMemtable
    /\ immQ = << >>
    /\ seqNo = 0
    /\ flushTasks = << >>
    /\ flushDown = FALSE
    /\ levels = << >>
    /\ manifest = << >>
    /\ disk = << >>
    /\ nextId = 0
    /\ compacting = {}
    /\ compTasks = << >>
    /\ compDown = FALSE
    /\ reloadDown = FALSE
    /\ wr = NoThread
    /\ fl = NoThread
    /\ cp = NoThread
    /\ cl = NoThread
    /\ rd = NoThread
    /\ last = [k \in Keys |-> NoEntry]
    /\ hist = [ops |-> 0, submitted |-> [p \in {"flush", "compaction", "reload"} |-> 0]]

NextLocks ==
    \/ \E kind \in {"wr", "rd", "fl", "cp", "cl"} : LockCall(kind)
    \/ \E h \in LockThreads : LockStep(h)

SpecLocks == InitLocks /\ [][NextLocks]_vars

(***************************************************************************)
(* Properties.                                                             *)
(***************************************************************************)
\* The layers of the read path: the active memtable, the immutable queue
\* and the runs listed in the levels.
AllLayers ==
    << active >> \o [i \in 1..Len(immQ) |-> immQ[i].mem] \o GetAllEntries(levels, disk)
NewestEntry(k) == NewestOf(AllLayers, k, NoEntry)

\* get(k) in the state a step leads to.
GetNext(k) == GetOf(active', immQ', levels', disk', k)

\* C1: once the put, delete, flush and compact calls issued so far have
\* returned, get(K) returns the value of the last put on K, and not-found
\* when the last write on K was a delete or K was never written, however the
\* background flushes and compactions interleave.
C1_GetReturnsLastWrite ==
    \A k \in Keys : (wr.pc = "idle" /\ fl.pc = "idle" /\ cp = "idle") => Get(k) = GetResult(last[k])

\* C2: when the process stops without close() and a fresh store is started
\* on the same directory, get returns for every key the outcome of the last
\* acknowledged write on it (or that of a write on the key that was in
\* progress when the process stopped).
C2_CrashRecovery ==
    [][(cl = "idle" /\ hist'.restarts = hist.restarts + 1)
          => \A k \in Keys :
                \/ GetNext(k) = GetResult(last[k])
                \/ wr.pc # "idle" /\ wr.key = k /\ GetNext(k) = GetResult(last'[k])]_vars

\* C3: after delete(K) has returned, and with no later write on K, get(K)
\* reports not-found, whatever older value of K a lower layer still holds.
C3_TombstoneSuppresses ==
    \A k \in Keys : (wr.pc = "idle" /\ last[k].del) => Get(k) = NotFound

\* C4: at every instant the entry of the last acknowledged write on K is
\* held by the active memtable, the immutable queue or a listed run (a
\* tombstone may instead have been dropped together with every older entry
\* of its key).
C4_NeverInNoLayer ==
    \A k \in Keys :
        last[k] # NoEntry =>
            \/ (\E i \in 1..Len(AllLayers) : AllLayers[i][k] = last[k])
            \/ last[k].del /\ NewestEntry(k) = NoEntry

\* C5: a fresh store opened after a clean close() returns for every key the
\* result the store returned just before close() was called.
C5_RestartEquivalence ==
    [][(cl = "done" /\ hist'.restarts = hist.restarts + 1 /\ hist.pre # NoPre)
          => \A k \in Keys : GetNext(k) = hist.pre[k]]_vars

\* C6: a successful compact() leaves the result of get(K) unchanged for
\* every key K.
C6_CompactPreservesGet ==
    [][(cp = "waited" /\ cp' = "idle" /\ levels' # levels)
          => \A k \in Keys : GetNext(k) = Get(k)]_vars

\* The steps of the compaction worker, as seen from outside.
MergeStep ==
    /\ compTasks # << >> /\ compTasks[1].pc = "queued"
    /\ compTasks' # << >> /\ compTasks'[1].pc = "created"
FinalizeStep ==
    /\ compTasks # << >> /\ compTasks[1].pc = "created"
    /\ compTasks' # << >> /\ compTasks'[1].pc = "finalized"
NewestInput(t, k) == NewestOf(t.sourceEntries \o t.nextEntries, k, NoEntry)

\* C7: a level compaction whose output level is not the bottommost (a
\* deeper level holds a run) writes every tombstone that is the newest
\* entry of its key among the inputs to the output run; finalization lists
\* that run at the output level, and a get(K) that was not-found for such a
\* key stays not-found.
C7_TombstoneSurvives ==
    [][/\ MergeStep =>
            \A k \in Keys :
                (NewestInput(compTasks[1], k).del /\ (\E d \in DOMAIN levels : d > compTasks[1].next /\ Len(levels[d]) > 0))
                    => /\ compTasks'[1].newId \in DOMAIN disk'
                       /\ disk'[compTasks'[1].newId][k] = NewestInput(compTasks[1], k)
       /\ FinalizeStep =>
            \A k \in Keys :
                (NewestInput(compTasks[1], k).del /\ ~compTasks[1].bottom)
                    => /\ compTasks[1].newId \in Range(levels'[compTasks[1].next])
                       /\ Get(k) = NotFound => GetNext(k) = NotFound]_vars

\* C7, the case: a finalized compaction into a level above the bottom has
\* kept the tombstone of a key whose older live value sits in a deeper
\* level, and get reports the key as not found.
C7_Witness ==
    /\ compTasks # << >>
    /\ compTasks[1].pc = "finalized"
    /\ ~compTasks[1].bottom
    /\ \E k \in Keys :
        /\ compTasks[1].newId \in Range(LevelRuns(levels, compTasks[1].next))
        /\ ReadAll(disk, compTasks[1].newId)[k].del
        /\ \E d \in DOMAIN levels : \E i \in 1..Len(levels[d]) :
              /\ d > compTasks[1].next
              /\ ReadAll(disk, levels[d][i])[k] # NoEntry
              /\ ~ReadAll(disk, levels[d][i])[k].del
              /\ ReadAll(disk, levels[d][i])[k].ts < ReadAll(disk, compTasks[1].newId)[k].ts
        /\ Get(k) = NotFound

\* C8: get returns, for every key, the entry with the largest timestamp
\* among the entries of that key in the active memtable, the immutable queue
\* and the listed runs.
C8_NewestWins ==
    \A k \in Keys : Get(k) = GetResult(NewestEntry(k))

\* C9: a get that runs concurrently with background compactions returns a
\* result that an instantaneous get of the same key had, or that the last
\* acknowledged write on the key called for, at some moment of the call; it
\* never misses a key because the runs of its snapshot were deleted while
\* their replacement is not in the snapshot.
C9_ReadAtomicWithCompaction ==
    rd.pc = "done" => rd.result \in rd.legal

\* C10: the record of an acknowledged write leaves the WAL (by the filtered
\* rewrite or by the clear of close) only when an entry of its key with an
\* equal or higher timestamp has been published in a run: at every instant
\* the last acknowledged write of a key is in the WAL or was published.
C10_WalRemovedAfterPublish ==
    \A k \in Keys :
        last[k] # NoEntry =>
            \/ \E i \in 1..Len(wal) : wal[i].key = k /\ wal[i].ts = last[k].ts
            \/ hist.pub[k] >= last[k].ts

\* The step of a flush worker whose run write fails, on the i-th task.
FlushFailStep(i) ==
    /\ i \in 1..Len(flushTasks)
    /\ flushTasks[i].pc = "queued"
    /\ flushTasks' = RemoveAt(flushTasks, i)
    /\ hist'.faults = hist.faults + 1

\* An entry is covered by the WAL: its record is there, or an entry of its
\* key with an equal or higher timestamp has been published in a run.
InWalOrPublished(w, pub, k, e) ==
    \/ \E j \in 1..Len(w) : w[j].key = k /\ w[j].ts = e.ts
    \/ pub[k] >= e.ts

\* C11: when the run write of a background flush fails, the worker lists no
\* run (level lists and manifests unchanged), the memtable it was flushing
\* is still in the immutable queue, and each of its entries is still covered
\* by the WAL.
C11_FailedFlushKeepsData ==
    [][\A i \in 1..FlushWorkers :
          FlushFailStep(i) =>
              /\ levels' = levels
              /\ manifest' = manifest
              /\ \E j \in 1..Len(immQ') : immQ'[j].mem = flushTasks[i].mem
              /\ \A k \in Keys :
                    flushTasks[i].mem[k] # NoEntry =>
                        InWalOrPublished(wal', hist'.pub, k, flushTasks[i].mem[k])]_vars

\* The run-IDs listed in the level lists, and those listed in the manifests.
LevelListedIds == UNION {Range(levels[l]) : l \in DOMAIN levels}
ManifestListedIds ==
    UNION {{manifest[l][i].id : i \in 1..Len(manifest[l])} : l \in DOMAIN manifest}
TornIds == {id \in DOMAIN disk : ~IsComplete(disk[id])}

\* C12: no partially written run is ever published: a run listed in a level
\* list is on disk and completely written, and no run listed in a manifest
\* has a torn directory, whether the run came from a flush, a background
\* compaction or a full compaction, and whether or not a write failed or
\* the process stopped in between.
C12_NoPartialRunPublished ==
    /\ \A id \in LevelListedIds : id \in DOMAIN disk /\ IsComplete(disk[id])
    /\ ManifestListedIds \cap TornIds = {}

\* C12, the case: a run write has failed and left a torn directory, which
\* is listed nowhere, beside runs that are listed.
C12_Witness ==
    /\ TornIds # {}
    /\ TornIds \cap (LevelListedIds \cup ManifestListedIds) = {}
    /\ LevelListedIds # {}
    /\ hist.restarts > 0

\* C13: run-IDs are never reused: next_sstable_id never decreases, and
\* every run directory a step writes (a finished run or one whose write
\* failed) carries an ID that is at least the next_sstable_id before the
\* step, so one no earlier run was given, and below the next_sstable_id
\* after it, so one no later run will be given; this across restarts too.
C13_RunIdsNeverReused ==
    [][/\ nextId' >= nextId
       /\ \A id \in {i \in DOMAIN disk' : i \notin DOMAIN disk \/ disk'[i] # disk[i]} :
             id >= nextId /\ id < nextId']_vars

\* C14: once close() has set the closed flag, no put or delete appends a
\* record to the WAL or inserts an entry into a memtable.
C14_NoWriteAfterClose ==
    [][closed =>
          /\ ~(wr.pc = "checked" /\ wr'.pc = "appended" /\ Len(wal') = Len(wal) + 1)
          /\ ~(wr.pc = "appended" /\ wr'.pc = "idle" /\ closed' = closed)]_vars

\* C15: after close() has returned, a public operation changes no in-memory
\* or on-disk state: no WAL record, no memtable change, no run created or
\* deleted, no manifest change.  put, delete and get test the closed flag
\* first and raise; the property is stated for compact().
C15_NoChangeAfterClose ==
    [][(cp = "waited" /\ cp' = "idle" /\ "compact" \in hist.late) =>
          UNCHANGED << wal, active, immQ, seqNo, levels, manifest, disk, nextId >>]_vars

\* C16: while a manual flush() has rotated its memtable and the run is not
\* yet published, that memtable is still in the immutable queue, so its
\* entries stay on the read path.
C16_FlushNoVisibilityGap == fl.pc = "rotated" => (\E j \in 1..Len(immQ) : immQ[j].seq = fl.seq /\ immQ[j].mem = fl.mem)

\* C17: flush() on a non-empty active memtable leaves the active memtable
\* empty, publishes exactly one new L0 run holding every entry of that
\* memtable, tombstones included, with num_entries equal to the memtable's
\* entry count, so that the run count grows by one; and when it returns
\* every key of the memtable reads as its latest write.
C17_FlushPublishesOneRun ==
    [][/\ (fl.pc = "idle" /\ fl'.pc = "rotated") =>
             active # EmptyMemtable /\ active' = EmptyMemtable /\ fl'.mem = active
       /\ (fl.pc = "rotated" /\ fl'.pc = "added") =>
             /\ Cardinality((Range(LevelRuns(levels', 0)) \ LevelListedIds)) = 1
             /\ \A id \in (Range(LevelRuns(levels', 0)) \ LevelListedIds) :
                   /\ disk'[id] = fl.mem
                   /\ \E j \in 1..Len(manifest'[0]) :
                         manifest'[0][j] = [id |-> id, n |-> MemLen(fl.mem)]
             /\ Cardinality(UNION {Range(levels'[l]) : l \in DOMAIN levels'})
                   = Cardinality(LevelListedIds) + 1
       /\ (fl.pc = "compacted" /\ fl'.pc = "idle") =>
             \A k \in Keys : fl.mem[k] # NoEntry => GetNext(k) = GetResult(last[k])]_vars

\* A compact() call that returns its metadata: the critical section of
\* SSTableManager.compact has replaced the level lists and add_sstable has
\* not raised.
CompactSuccessStep == cp = "waited" /\ cp' = "idle" /\ levels' # levels /\ ~reloadDown
OldRuns == GetAllEntries(levels, disk)
OldEntries(k) == {OldRuns[i][k] : i \in 1..Len(OldRuns)} \ {NoEntry}
LiveNewest(k, e) ==
    /\ e \in OldEntries(k)
    /\ ~e.del
    /\ \A o \in OldEntries(k) : o.ts <= e.ts

\* C18: when compact() succeeds the store lists exactly one run, in its
\* levels and in its manifests; the run holds, for each key whose
\* highest-timestamp entry among the previous runs was live, exactly that
\* entry, and nothing else (no tombstone, no key whose highest-timestamp
\* entry was a tombstone); every previous run is unlisted and deleted.
C18_CompactLeavesOneRun ==
    [][CompactSuccessStep =>
          /\ SeqSum([i \in 1..Len(GetAllEntries(levels', disk')) |-> 1]) = 1
          /\ UNION {{manifest'[l][i].id : i \in 1..Len(manifest'[l])} : l \in DOMAIN manifest'} = LevelListedIds'
          /\ \A id \in LevelListedIds' :
                /\ id \notin LevelListedIds
                /\ \A k \in Keys :
                      /\ disk'[id][k] # NoEntry => LiveNewest(k, disk'[id][k])
                      /\ (\E e \in OldEntries(k) : LiveNewest(k, e)) => disk'[id][k] # NoEntry
          /\ \A id \in LevelListedIds : id \notin DOMAIN disk']_vars

\* C18, the case: compact() has retired at least two runs; the one run left
\* holds the latest live entry of one key and nothing of another key whose
\* tombstone, the latest write on it, had been published in a run.
C18_Witness ==
    /\ cp = "idle"
    /\ hist.retired >= 2
    /\ Cardinality(LevelListedIds) = 1
    /\ \A id \in LevelListedIds :
          /\ \E k \in Keys :
                last[k].del /\ hist.pub[k] = last[k].ts /\ ReadAll(disk, id)[k] = NoEntry
          /\ \E k \in Keys : ~last[k].del /\ ReadAll(disk, id)[k] = last[k]

\* No live entry would remain: no run is listed, or the highest-timestamp
\* entry of every key among the listed runs is a tombstone.
NoLiveEntryLeft == \A k \in Keys : \A e \in OldEntries(k) : ~LiveNewest(k, e)

\* C19: compact() on a store without runs, or whose runs hold a tombstone as
\* the latest entry of every key, raises and leaves every run, level list
\* and manifest as it was.
C19_CompactNothingLiveRaises ==
    [][((cp = "waited" /\ cp' = "idle") /\ NoLiveEntryLeft) =>
          /\ FullCompact(SST, reloadDown).raised
          /\ UNCHANGED << levels, manifest, disk, nextId >>]_vars

\* C19, the case: the latest compact() ran on listed runs, retired none of
\* them, and they are still the runs the store lists, a tombstone being the
\* latest entry of every key they hold.
C19_Witness ==
    /\ cp = "idle"
    /\ hist.compacts > 0
    /\ hist.listed > 0
    /\ hist.retired = 0
    /\ Listed(levels) = hist.listed
    /\ NoLiveEntryLeft
    /\ \E k \in Keys : OldEntries(k) # {}

C21_RejectsExactlyOversized ==
    [][\A op \in {"PUT", "GET", "DELETE"} :
          (wr.pc = "idle" /\ wr.op = op /\ wr'.pc # "idle") =>
              LET Utf8Len(t) == t.chars * t.width
                  bad == \/ Utf8Len(wr.key) = 0
                         \/ Utf8Len(wr.key) > MaxKeySize
                         \/ op = "PUT" /\ Utf8Len(wr.val) > MaxValueSize
              IN  /\ wr'.pc = "rejected" <=> bad
                  /\ UNCHANGED << lastTs, wal, active, immQ, seqNo >>]_vars

\* C22: the compactions submitted and not yet finished have pairwise
\* disjoint inputs: no run is among the source or next-level runs of two of
\* them, whichever flush worker or cascade step submitted them.
C22_NoSharedCompactionInput ==
    \A i \in 1..Len(compTasks) : \A j \in 1..Len(compTasks) :
        i < j => (compTasks[i].sourceIds \cup compTasks[i].nextIds)
                    \cap (compTasks[j].sourceIds \cup compTasks[j].nextIds) = {}

\* C23: compact() runs its full compaction only while no background
\* compaction is submitted or running, so the two never share an input; and
\* a background compaction publishing its merged run after a full
\* compaction still finds every run of its snapshot listed, that is, its
\* snapshot was not taken before the full compaction.
C23_FullCompactionAlone ==
    [][/\ CompactSuccessStep => compTasks = << >> /\ compacting = {}
       /\ (FinalizeStep /\ compTasks[1].newId # -1 /\ hist.retired > 0)
             => (compTasks[1].sourceIds \cup compTasks[1].nextIds) \subseteq LevelListedIds]_vars

\* C24: memtables are handed to the flush workers oldest first, and a
\* worker lists its run in L0 only when the run of every memtable rotated
\* earlier has been listed, so that L0 is in rotation order.
C24_L0FlushOrdered ==
    [][/\ \A i \in 1..Len(flushTasks) : \A j \in 1..Len(flushTasks) :
             i < j => flushTasks[i].seq < flushTasks[j].seq
       /\ \A i \in 1..Len(flushTasks) :
             (/\ flushTasks[i].pc = "queued"
              /\ Len(flushTasks') = Len(flushTasks)
              /\ flushTasks'[i].pc = "added")
                => \A j \in 1..(i - 1) : flushTasks[j].pc # "queued"]_vars

\* C25: no resurrection.  A key whose latest write is a delete and that
\* reads as not found stays not found; and a compaction that drops the
\* tombstone of a key (a background one whose output level is the
\* bottommost, or a full one) does so only when no older live entry of the
\* key is left in a memtable still to be flushed or in a listed run outside
\* its inputs.
C25_NoResurrection ==
    [][LET Unflushed == << active >> \o [i \in 1..Len(immQ) |-> immQ[i].mem]
                          \o [i \in 1..Len(flushTasks) |->
                                 IF flushTasks[i].pc = "queued" THEN flushTasks[i].mem
                                 ELSE EmptyMemtable]
           OlderLive(k, t, inputs) ==
               \/ \E i \in 1..Len(Unflushed) :
                     Unflushed[i][k] # NoEntry /\ ~Unflushed[i][k].del /\ Unflushed[i][k].ts < t.ts
               \/ \E id \in LevelListedIds \ inputs :
                     LET e == ReadAll(disk, id)[k]
                     IN  e # NoEntry /\ ~e.del /\ e.ts < t.ts
       IN  /\ \A k \in Keys :
                 (last[k].del /\ last'[k] = last[k] /\ Get(k) = NotFound)
                    => GetNext(k) = NotFound
           /\ (MergeStep /\ compTasks'[1].bottom) =>
                 \A k \in Keys :
                     NewestInput(compTasks[1], k).del =>
                        ~OlderLive(k, NewestInput(compTasks[1], k),
                                   compTasks[1].sourceIds \cup compTasks[1].nextIds)
           /\ CompactSuccessStep =>
                 \A k \in Keys :
                     NewestOf(OldRuns, k, NoEntry).del =>
                        ~OlderLive(k, NewestOf(OldRuns, k, NoEntry), LevelListedIds)]_vars

\* C26: publish-then-delete is crash-safe.  When the process crashes inside
\* a compaction, after the new run is published and before every superseded
\* run is out of its level's manifest, the runs loaded at restart answer
\* every key as the runs did before the compaction: no live key is lost and
\* no deleted key comes back.
\* Stated for the compactions that start from runs whose first hit for
\* every key is the key's newest entry.
C26_CompactionCrashSafe ==
    [][LET Newest(k) == KeyMap(GetAllEntries(levels, disk))[k]
       IN  (/\ cp = "waited"
            /\ hist'.restarts # hist.restarts
            /\ \A k \in Keys : SSTGet(levels, disk, k) = Newest(k))
              => \A k \in Keys :
                    GetResult(SSTGet(levels', disk', k)) = GetResult(SSTGet(levels, disk, k))]_vars

\* C27: every put or delete that has returned True, one racing with close()
\* included, has its record in the WAL or its entry (or a newer one of the
\* key) in a run listed in a manifest, so that a reopened store can read it;
\* in particular close() does not clear the WAL over such a write.
C27_AcknowledgedWriteIsDurable ==
    \A k \in Keys :
        last[k] # NoEntry =>
            \/ \E j \in 1..Len(wal) : wal[j].key = k /\ wal[j].ts = last[k].ts
            \/ \E l \in DOMAIN manifest : \E i \in 1..Len(manifest[l]) :
                  /\ manifest[l][i].id \in DOMAIN disk
                  /\ disk[manifest[l][i].id][k] # NoEntry
                  /\ disk[manifest[l][i].id][k].ts >= last[k].ts

\* C28: MemtableManager.get(key) returns the first Entry of the key met in
\* the active memtable and then in the immutable queue from newest to
\* oldest, a tombstone included: when the newest in-memory entry of the key
\* is a tombstone, the tombstone is returned, not None and not an older
\* entry of a memtable searched later.
C28_ManagerGetReturnsFirstEntry ==
    LET mems == << active >> \o Reverse([i \in 1..Len(immQ) |-> immQ[i].mem])
        holding(k) == {i \in 1..Len(mems) : mems[i][k] # NoEntry}
        first(k) == CHOOSE i \in holding(k) : \A j \in holding(k) : i <= j
    IN  \A k \in Keys :
            MMGet(active, immQ, k) = IF holding(k) = {} THEN NoEntry ELSE mems[first(k)][k]

\* C29: a WAL append and a replace_with_filtered that run at the same time
\* lose and duplicate nothing.  The append adds its record once at the end;
\* the rewrite of a flush worker leaves exactly the records that pass the
\* filter, once each and in their order; and the record of a put or delete
\* that is still in progress is in the WAL exactly once after either step.
C29_AppendSurvivesWalRewrite ==
    [][/\ (wr.pc = "checked" /\ wr'.pc = "appended")
            => /\ wal' = Append(wal, [op |-> wr.op, key |-> wr.key, val |-> wr.val, ts |-> wr'.ts])
               /\ \A j \in 1..Len(wal) : wal[j].ts # wr'.ts
       /\ \A i \in 1..Len(flushTasks) :
            (flushTasks[i].pc = "compacted" /\ flushTasks' = RemoveAt(flushTasks, i))
                => LET flushed == flushTasks[i].mem
                       keep_record(r) == flushed[r.key] = NoEntry \/ r.ts > flushed[r.key].ts
                   IN  wal' = SelectSeq(wal, keep_record)
       /\ (wr'.pc = "appended" /\ wal' # wal)
            => Cardinality({j \in 1..Len(wal') : wal'[j].ts = wr'.ts}) = 1]_vars

\* A put has appended its record and not yet returned, and the WAL, after
\* the rewrite of a flush that published older records, holds that record
\* and nothing else.
C29_Witness ==
    /\ wr.pc = "appended"
    /\ wr.ts > 1
    /\ flushTasks = << >>
    /\ levels # << >>
    /\ Len(wal) = 1
    /\ wal[1].ts = wr.ts

\* C30: with writers running at the same time, the WAL records are in the
\* order of their timestamps, and the entries are applied to the memtable
\* manager in that same order: a record is appended only after every earlier
\* record was applied, and the entry applied is that of the last record.
\* Hence, whenever no writer is between its append and its insert, the
\* newest in-memory entry of a key and the last WAL record of the key, when
\* both are there, carry the same timestamp.
C30_WalOrderIsApplyOrder ==
    [][LET mems == << active' >> \o Reverse([i \in 1..Len(immQ') |-> immQ'[i].mem])
           holding(k) == {i \in 1..Len(mems) : mems[i][k] # NoEntry}
           first(k) == CHOOSE i \in holding(k) : \A j \in holding(k) : i <= j
           records(k) == {j \in 1..Len(wal') : wal'[j].key = k}
           newest(k) == CHOOSE j \in records(k) : \A i \in records(k) : i <= j
       IN  /\ \A i, j \in 1..Len(wal') : i < j => wal'[i].ts < wal'[j].ts
           /\ (wr.pc = "checked" /\ wr'.pc = "appended")
                => \A j \in 1..Len(wal) : last[wal[j].key].ts >= wal[j].ts
           /\ (wr.pc = "appended" /\ wr'.pc # "appended")
                => /\ wal[Len(wal)].ts = wr.ts
                   /\ \/ active'[wr.key].ts = wr.ts
                      \/ \E i \in 1..Len(immQ') : immQ'[i].mem[wr.key].ts = wr.ts
                      \/ \E i \in 1..Len(flushTasks') : flushTasks'[i].mem[wr.key].ts = wr.ts
           /\ wr'.pc # "appended"
                => \A k \in Keys :
                      (holding(k) # {} /\ records(k) # {})
                          => mems[first(k)][k].ts = wal'[newest(k)].ts]_vars

\* A second write of a key has been appended after the first was applied,
\* while a third writer waits for the lock.
C30_Witness ==
    /\ wr.pc = "appended"
    /\ wr.next # NoCall
    /\ Len(wal) = 2
    /\ wal[1].key = wr.key
    /\ wal[2].ts = wr.ts
    /\ active[wr.key].ts = wal[1].ts

\* C31: every memtable rotated out of the active slot is handed to the flush
\* callback exactly once.  At the step that rotates, the rotated memtable is
\* in the immutable queue or with a flush worker, every memtable that was
\* queued is still queued or with a flush worker (the bounded queue discards
\* none), and no memtable is in both places or twice in one.
C31_RotatedMemtableFlushedOnce ==
    [][LET queued(q) == {q[i].seq : i \in 1..Len(q)}
       IN  seqNo' = seqNo + 1
              => /\ seqNo \in queued(immQ') \cup queued(flushTasks')
                 /\ queued(immQ) \subseteq queued(immQ') \cup queued(flushTasks')
                 /\ queued(immQ') \cap queued(flushTasks') = {}
                 /\ Cardinality(queued(immQ')) = Len(immQ')
                 /\ Cardinality(queued(flushTasks')) = Len(flushTasks')]_vars

\* C32: at every moment the immutable queue holds at most max_immutable
\* memtables, and once a put or delete has returned the active memtable holds
\* fewer than memtable_size entries.
C32_QueueAndActiveBounded ==
    /\ Len(immQ) <= MaxImmutable
    /\ wr.pc \in {"idle", "checked"} => MemLen(active) < MemtableSize

\* A put has returned after rotating a full memtable, and the next one has
\* left one entry in the new active memtable.
C32_Witness ==
    /\ wr.pc = "idle"
    /\ seqNo >= 1
    /\ MemLen(active) = MemtableSize - 1

\* C33: every run-ID put into the compacting set is taken out again, whether
\* its compaction succeeds, raises or could not be handed to the executor,
\* so that wait_for_compaction returns True in the end.  Only the `finally`
\* of a job takes IDs out, and the executor takes no job once it is shut
\* down: from then on every marked ID is held by a queued or running job.
C33_CompactingSetDrains ==
    compDown =>
        compacting \subseteq UNION {compTasks[i].sourceIds \cup compTasks[i].nextIds :
                                       i \in 1..Len(compTasks)}

\* C34: a level that is eligible for compaction gets a compaction submitted
\* and run without further writes, also when it became eligible while a
\* compaction of its runs was in flight and _auto_compact passed it over:
\* when no call, no flush and no compaction is in progress or queued, no
\* level is eligible.  Stated for stores on which compact() was not called.
C34_NoEligibleLevelAtQuiescence ==
    (/\ wr.pc = "idle"
     /\ flushTasks = << >>
     /\ compTasks = << >>
     /\ cp = "idle"
     /\ hist.compacts = 0)
        => \A l \in DOMAIN levels : ~ShouldCompactLevel(SST, l)

\* C35: a level is eligible for compaction exactly when its run count (L0
\* only), its total entry count or its total byte size has reached
\* soft_limit_ratio x the hard limit, the product taken without rounding;
\* while all three are below the product the level is not eligible.
C35_EligibleExactlyAtSoftLimit ==
    \A l \in DOMAIN levels :
        ShouldCompactLevel(SST, l) <=>
            /\ levels[l] # << >>
            /\ \/ l = 0 /\ Len(levels[l]) * 100 >= MaxL0SSTables * SoftLimitPct
               \/ LevelTotalEntries(SST, l) * 100
                      >= BaseLevelEntries * Pow(LevelRatio, l) * SoftLimitPct
               \/ LevelTotalBytes(SST, l) * 100
                      >= BaseLevelSizeBytes * Pow(LevelRatio, l) * SoftLimitPct

\* C36: every timestamp _get_timestamp returns is strictly greater than every
\* one it returned earlier in the same process, whatever the callers'
\* interleaving and whether the clock repeats a value or goes back: the
\* value returned to a writer is above the last returned one and becomes the
\* last returned one, which never decreases.
C36_TimestampsStrictlyIncrease ==
    [][/\ (wr.pc = "checked" /\ wr'.pc = "appended")
            => (wr'.ts > lastTs /\ lastTs' = wr'.ts)
       /\ lastTs' >= lastTs]_vars

\* A writer got a timestamp above every clock reading, so the clock had
\* repeated or gone back, while a second writer waits.
C36_Witness ==
    /\ wr.pc = "appended"
    /\ wr.ts > MaxClock
    /\ wr.next # NoCall

\* C37: after start-up the timestamp given to a new write is strictly greater
\* than the timestamp of every WAL record and of every entry of a published
\* run, so that the write wins over all persisted data of its key even when
\* the clock went back between the sessions.
C37_NewWriteAbovePersisted ==
    [][(wr.pc = "checked" /\ wr'.pc = "appended" /\ hist.restarts > 0)
          => /\ \A j \in 1..Len(wal) : wal[j].ts < wr'.ts
             /\ \A id \in DOMAIN disk : \A k \in Keys :
                   (\E l \in DOMAIN manifest : \E i \in 1..Len(manifest[l]) : manifest[l][i].id = id)
                       => disk[id][k].ts < wr'.ts]_vars

\* After a restart with an empty WAL a write has been given a timestamp above
\* the clock readings, one more than the newest entry of the published runs.
C37_Witness ==
    /\ hist.restarts > 0
    /\ wr.pc = "appended"
    /\ wal = << [op |-> wr.op, key |-> wr.key, val |-> wr.val, ts |-> wr.ts] >>
    /\ wr.ts > MaxClock
    /\ \E id \in DOMAIN disk : \E k \in Keys : disk[id][k].ts = wr.ts - 1

\* C38: whenever no add_sstable, compaction finalisation or run removal is in
\* progress, each level's manifest records exactly the run-IDs of the
\* in-memory list of that level.
C38_ManifestMatchesLevels ==
    \A l \in DOMAIN manifest \cup DOMAIN levels :
        {LevelRuns(manifest, l)[i].id : i \in 1..Len(LevelRuns(manifest, l))}
            = Range(LevelRuns(levels, l))

\* A background compaction has moved runs to a deeper level, a newer run is
\* listed at L0, and no compaction is queued or running.
C38_Witness ==
    /\ compTasks = << >>
    /\ LevelRuns(levels, 0) # << >>
    /\ \E l \in DOMAIN levels : l >= 1 /\ levels[l] # << >>
    /\ nextId >= 3

\* C39: WAL.read_all never raises, whatever the lines of the file hold, and
\* returns the records of the well-formed lines, in file order.
C39_ReadAllSkipsCorruptLines ==
    LET WellFormed(line) ==
            \E op \in {"PUT", "DELETE"} :
                line = Serialize([op |-> op, key |-> line.key, val |-> line.value,
                                  ts |-> line.ts])
        good == SelectSeq(wal, WellFormed)
    IN  /\ rd.pc # "raised"
        /\ rd.pc = "returned"
              => rd.records = [i \in 1..Len(good) |->
                                  [op |-> good[i].op, key |-> good[i].key,
                                   val |-> good[i].value, ts |-> good[i].ts]]

\* C40: no interleaving of the callers' put, get, delete, flush, compact and
\* close with the flush workers, the compaction worker and the manifest
\* reload worker deadlocks: as long as a call or a task is unfinished, close()
\* among them, some thread can take a step.
C40_NoDeadlock ==
    (\E h \in LockThreads : ~Finished(ThreadAt(h))) => \E h \in LockThreads : Runnable(h)

\* close() waits for the flush executor while a flush worker holds the
\* SSTable-manager lock and the compaction worker waits for that lock.
C40_Witness ==
    /\ ~Finished(cl)
    /\ cl.prog[cl.pc] = [op |-> "join", arg |-> "flush"]
    /\ \E i \in 1..Len(flushTasks) : "sst" \in Range(flushTasks[i].thread.held)
    /\ \E i \in 1..Len(compTasks) :
          /\ compTasks[i].pool = "compaction"
          /\ compTasks[i].thread.prog[compTasks[i].thread.pc].arg = "sst"
          /\ ~Runnable([kind |-> "sst", i |-> i])

====
